---- MODULE Spec2Model ----
(***************************************************************************)
(* A model of the MIR <-> LLVM bitcode bridge of the quick compiler,       *)
(* src/compiler/codegen/MethodBitcode.cc: the forward conversion           *)
(* (oatMethodMIR2Bitcode and the per-opcode converters), the location      *)
(* model (llvmTypeFromLocRec, createLocFromValue) and the reverse          *)
(* converters (cvtBinOp, cvtShiftOp, ... methodBitcodeBlockCodeGen).       *)
(***************************************************************************)
EXTENDS Integers, Sequences, FiniteSets, TLC

VARIABLES
  pc,          \* position of the pass being run
  method,      \* the source method: SSA control-flow graph and metadata (input)
  cUnit,       \* the CompilationUnit fields the bridge writes, the llvm
               \* function under construction included
  bbIdx,       \* dispatcher position: index into the DFS preorder block list
  mirIdx,      \* block driver position: index of the next MIR of the block
  locIn,       \* location model: the RegLocation handed to llvmTypeFromLocRec
  locTy,       \* location model: the llvm type chosen for it
  locOut       \* location model: the RegLocation createLocFromValue rebuilt

vars == <<pc, method, cUnit, bbIdx, mirIdx, locIn, locTy, locOut>>

(***************************************************************************)
(* Program constants.                                                      *)
(***************************************************************************)
INVALID_SREG == -1

\* The base register the Method* argument is given.
SSA_METHOD_BASEREG == -2

(***************************************************************************)
(* Small helpers.                                                          *)
(***************************************************************************)
Range(s) == {s[i] : i \in 1..Len(s)}

BoolToNat(b) == IF b THEN 1 ELSE 0

\* F applied to the value of v (of a and b, of a, b and d): the argument is
\* computed once, however often F uses it.
With(v, F(_)) == CHOOSE y \in {F(x) : x \in {v}} : TRUE

With2(a, b, F(_, _)) == CHOOSE y \in {F(x, z) : x \in {a}, z \in {b}} : TRUE

With3(a, b, d, F(_, _, _)) ==
  CHOOSE y \in {F(x, z, w) : x \in {a}, z \in {b}, w \in {d}} : TRUE

(***************************************************************************)
(* Location model.                                                         *)
(***************************************************************************)
\* RegLocation: the fields of the descriptor this file reads or writes.
MkLoc(location, wide, defined, fp, core, ref, sRegLow, origSReg) ==
  [location |-> location, wide |-> wide, defined |-> defined, fp |-> fp,
   core |-> core, ref |-> ref, highWord |-> FALSE, home |-> FALSE,
   sRegLow |-> sRegLow, origSReg |-> origSReg]

\* extern const RegLocation badLoc
badLoc == MkLoc("kLocDalvikFrame", FALSE, FALSE, FALSE, FALSE, FALSE,
                INVALID_SREG, INVALID_SREG)

\* A plausible slip: the reference test made before the floating-point test.
llvmTypeFromLocRec_RefFirst(loc) ==
  IF loc.wide
    THEN (IF loc.fp THEN "Double" ELSE "Int64")
    ELSE (IF loc.ref THEN "JObject"
          ELSE IF loc.fp THEN "Float" ELSE "Int32")

llvmTypeFromLocRec(loc) ==
  IF loc.wide
    THEN (IF loc.fp THEN "Double" ELSE "Int64")
    ELSE (IF loc.fp THEN "Float"
          ELSE IF loc.ref THEN "JObject" ELSE "Int32")

\* A plausible slip: only the 64-bit integer type taken as wide.
createLocFromValue_WideIntOnly(name, ty, mapSize) ==
  [location |-> "kLocDalvikFrame",
   wide     |-> (ty = "Int64"),
   defined  |-> TRUE,
   fp       |-> (ty \in {"Float", "Double"}),
   ref      |-> (ty \notin {"Float", "Double"} /\ ty = "JObject"),
   core     |-> (ty \notin {"Float", "Double", "JObject"}),
   highWord |-> FALSE,
   home     |-> FALSE,
   sRegLow  |-> IF name[1] = "method" THEN SSA_METHOD_BASEREG ELSE name[2],
   origSReg |-> mapSize]

\* createLocFromValue: the RegLocation put in locMap for a value with the
\* given name (<<"v", baseSReg, subscript>>) and type, when locMap holds
\* mapSize entries.
createLocFromValue(name, ty, mapSize) ==
  [location |-> "kLocDalvikFrame",
   wide     |-> (ty \in {"Int64", "Double"}),
   defined  |-> TRUE,
   fp       |-> (ty \in {"Float", "Double"}),
   ref      |-> (ty \notin {"Float", "Double"} /\ ty = "JObject"),
   core     |-> (ty \notin {"Float", "Double", "JObject"}),
   highWord |-> FALSE,
   home     |-> FALSE,
   sRegLow  |-> IF name[1] = "method" THEN SSA_METHOD_BASEREG ELSE name[2],
   origSReg |-> mapSize]

(***************************************************************************)
(* Specification SpecLoc: the two type mappings applied to every           *)
(* location descriptor.                                                    *)
(***************************************************************************)
MaxLocSReg == 1

LocInputs ==
  {MkLoc(l, w, d, f, c, r, s, s) :
     l \in {"kLocDalvikFrame", "kLocPhysReg", "kLocInvalid"},
     w \in BOOLEAN, d \in BOOLEAN, f \in BOOLEAN, c \in BOOLEAN,
     r \in BOOLEAN, s \in 0..MaxLocSReg}

\* The variables of a pass that is not running.
NoMethod == [name |-> "none"]

NoUnit == [name |-> "none"]

ForwardIdle == method = NoMethod /\ cUnit = NoUnit /\ bbIdx = 0 /\ mirIdx = 0

LocIdle == locIn = badLoc /\ locTy = "none" /\ locOut = badLoc

InitLoc ==
  /\ pc = "loc_start"
  /\ ForwardIdle
  /\ locIn \in LocInputs
  /\ locTy = "none"
  /\ locOut = badLoc

\* The forward direction: the type chosen for a definition.
LocTypeOf ==
  /\ pc = "loc_start"
  /\ locTy' = llvmTypeFromLocRec(locIn)
  /\ pc' = "loc_typed"
  /\ UNCHANGED <<locIn, locOut, method, cUnit, bbIdx, mirIdx>>

\* The reverse direction: the location inferred from a value of that type.
LocFromValue ==
  /\ pc = "loc_typed"
  /\ locOut' = createLocFromValue(<<"v", locIn.sRegLow, 0>>, locTy, 0)
  /\ pc' = "loc_done"
  /\ UNCHANGED <<locIn, locTy, method, cUnit, bbIdx, mirIdx>>

NextLoc == LocTypeOf \/ LocFromValue

SpecLoc == InitLoc /\ [][NextLoc]_vars

(***************************************************************************)
(* C3: llvmTypeFromLocRec depends on (wide, fp, ref) only: wide and fp     *)
(* gives Double, wide and not fp gives Int64, not wide and fp gives Float, *)
(* not wide, not fp and ref gives JObject, anything else gives Int32.      *)
(***************************************************************************)
C3_TypeMapping ==
  pc \in {"loc_typed", "loc_done"} =>
    /\ (locIn.wide /\ locIn.fp) => locTy = "Double"
    /\ (locIn.wide /\ ~locIn.fp) => locTy = "Int64"
    /\ (~locIn.wide /\ locIn.fp) => locTy = "Float"
    /\ (~locIn.wide /\ ~locIn.fp /\ locIn.ref) => locTy = "JObject"
    /\ (~locIn.wide /\ ~locIn.fp /\ ~locIn.ref) => locTy = "Int32"

C3_Witness ==
  pc = "loc_typed" /\ ~locIn.wide /\ ~locIn.fp /\ locIn.ref /\ locTy = "JObject"

ExactlyOneKind(loc) ==
  BoolToNat(loc.fp) + BoolToNat(loc.ref) + BoolToNat(loc.core) = 1

SameFlags(a, b) ==
  a.wide = b.wide /\ a.fp = b.fp /\ a.ref = b.ref /\ a.core = b.core

(***************************************************************************)
(* C4 as stated: for every location with exactly one of fp/ref/core set,   *)
(* the flags createLocFromValue infers from the type llvmTypeFromLocRec    *)
(* chose are the flags of the original location.                           *)
(***************************************************************************)
C4_RoundTripAsStated ==
  (pc = "loc_done" /\ ExactlyOneKind(locIn)) => SameFlags(locOut, locIn)

(***************************************************************************)
(* C4 amended: the same, for every location with exactly one of            *)
(* fp/ref/core set that is not a wide object reference (a wide reference   *)
(* is typed Int64 and comes back as a wide core location).                 *)
(***************************************************************************)
C4_RoundTrip ==
  (pc = "loc_done" /\ ExactlyOneKind(locIn) /\ ~(locIn.wide /\ locIn.ref))
    => SameFlags(locOut, locIn)

C4_Witness ==
  pc = "loc_done" /\ ExactlyOneKind(locIn) /\ locIn.wide /\ locIn.fp
  /\ locOut.wide /\ locOut.fp

(***************************************************************************)
(* The llvm side: values, instructions, blocks.                            *)
(*                                                                         *)
(* A value is <<kind, n>>: <<"arg", k>> the k-th function argument (0 is   *)
(* the method pointer), <<"ph", s>> the placeholder load of SSA slot s,   *)
(* <<"alloca", s>> its stack slot, <<"inst", n>> the n-th instruction      *)
(* created outside the placeholder block, <<"cint", c>> / <<"clong", c>>   *)
(* a 32/64-bit constant, <<"jnull", 0>> the null object constant,          *)
(* <<"null", 0>> a NULL Value*, <<"garbage", 0>> what an out-of-bounds     *)
(* read returns.  A name is <<"v", register, subscript>>, <<"t", n, 0>>,   *)
(* <<"method", 0, 0>> or NoName.  A block is known by its name.            *)
(***************************************************************************)
Null == <<"null", 0>>

Garbage == <<"garbage", 0>>

JNull == <<"jnull", 0>>

CInt(c) == <<"cint", c>>

CLong(c) == <<"clong", c>>

NoName == <<"", 0, 0>>

NoOff == -1

NoBlock == <<"none", 0, 0>>

EntryName == <<"entry", 0, 0>>

PlaceholderName == <<"placeholder", 0, 0>>

\* StringPrintf(kLabelFormat, offset, bb->id) with kLabelFormat "L0x%x_%d"
\* "%x": the digits of a number in base 16, the most significant first.
RECURSIVE HexDigits(_)
HexDigits(n) ==
  IF n < 16 THEN <<n>> ELSE Append(HexDigits(n \div 16), n % 16)

\* The number a "%x" conversion reads from digits of base 16.
RECURSIVE HexValue(_)
HexValue(ds) ==
  IF ds = <<>> THEN 0
  ELSE 16 * HexValue(SubSeq(ds, 1, Len(ds) - 1)) + ds[Len(ds)]

\* StringPrintf(kLabelFormat, offset, id): "L0x", the offset's digits, "_",
\* the id.
LabelName(offset, id) == <<"L", HexDigits(offset), id>>

\* irb->CreateXxx at the insert point: the instruction is appended to the
\* insert block and carries the builder's current DexOff metadata.
MkInst(val, op, intr, args, ty, succ, off) ==
  [val |-> val, op |-> op, intr |-> intr, args |-> args, ty |-> ty,
   name |-> NoName, off |-> off, succ |-> succ]

BlockIdx(c, bname) ==
  CHOOSE i \in 1..Len(c.blocks) : c.blocks[i].name = bname

HasBlock(c, bname) == \E i \in 1..Len(c.blocks) : c.blocks[i].name = bname

Emit(c, op, intr, args, ty, succ) ==
  With3(c, args, <<ty, succ>>, LAMBDA cc, aa, ts :
    [cc EXCEPT !.blocks[BlockIdx(cc, cc.ip)].insts =
                 Append(@, MkInst(<<"inst", cc.nv>>, op, intr, aa, ts[1],
                                  ts[2], cc.off)),
               !.nv = @ + 1])

\* The value of the instruction the last Emit created.
LastVal(c) == <<"inst", c.nv - 1>>

AllInsts(c) ==
  UNION {Range(c.blocks[i].insts) : i \in 1..Len(c.blocks)}

\* The type of a value.
TypeOfValue(c, v) ==
  CASE v[1] = "arg" -> c.args[v[2] + 1].ty
    [] v[1] = "cint" -> "Int32"
    [] v[1] = "clong" -> "Int64"
    [] v[1] = "jnull" -> "JObject"
    [] v[1] \in {"inst", "ph", "alloca"} ->
         (IF \E x \in AllInsts(c) : x.val = v
            THEN (CHOOSE x \in AllInsts(c) : x.val = v).ty
            ELSE "Unknown")
    [] OTHER -> "Unknown"

\* The name of a value.
NameOfValue(c, v) ==
  CASE v[1] = "arg" -> c.args[v[2] + 1].name
    [] v[1] \in {"inst", "ph", "alloca"} ->
         (IF \E x \in AllInsts(c) : x.val = v
            THEN (CHOOSE x \in AllInsts(c) : x.val = v).name
            ELSE NoName)
    [] OTHER -> NoName

\* Value::setName
SetName(c, v, nm) ==
  With3(c, v, nm, LAMBDA cc, vv, nn :
    CASE vv[1] = "arg" -> [cc EXCEPT !.args[vv[2] + 1].name = nn]
      [] OTHER ->
         [cc EXCEPT !.blocks =
            [i \in 1..Len(cc.blocks) |->
               [cc.blocks[i] EXCEPT !.insts =
                  [j \in 1..Len(cc.blocks[i].insts) |->
                     IF cc.blocks[i].insts[j].val = vv
                       THEN [cc.blocks[i].insts[j] EXCEPT !.name = nn]
                       ELSE cc.blocks[i].insts[j]]]]])

\* Value::replaceAllUsesWith: every operand that is old becomes new.
ReplaceAllUsesWith(c, old, new) ==
  With3(c, old, new, LAMBDA cc, oo, nn :
    [cc EXCEPT !.blocks =
       [i \in 1..Len(cc.blocks) |->
          [cc.blocks[i] EXCEPT !.insts =
             [j \in 1..Len(cc.blocks[i].insts) |->
                [cc.blocks[i].insts[j] EXCEPT !.args =
                   [k \in 1..Len(@) |-> IF @[k] = oo THEN nn ELSE @[k]]]]]]])

\* Value::takeName: val gets the name of from, which is left unnamed.
TakeName(c, val, from) ==
  With3(c, val, from, LAMBDA cc, vv, ff :
    SetName(SetName(cc, ff, NoName), vv, NameOfValue(cc, ff)))

(***************************************************************************)
(* The value table.                                                        *)
(***************************************************************************)
\* getLLVMValue: llvmValues.elemList[sReg]; an index outside the list reads
\* whatever lies there.
getLLVMValue(c, sReg) ==
  IF sReg >= 0 /\ sReg < Len(c.llvmValues)
    THEN c.llvmValues[sReg + 1]
    ELSE Garbage

getLLVMBlock(c, id) == c.idToBlockMap[id]

\* LOG(FATAL), CHECK: the process aborts.
Fatal(c, what) ==
  [c EXCEPT !.status = "fatal",
            !.log = Append(@, [level |-> "FATAL", what |-> what,
                               offset |-> NoOff, name |-> "none",
                               code |-> "none"])]

\* defineValue: replace the placeholder value with the real definition.
defineValue(c, val, sReg) ==
  With3(c, val, getLLVMValue(c, sReg), LAMBDA cc, vv, placeholder :
    IF placeholder = Null
      THEN Fatal(cc, "Null placeholder - shouldn't happen")
      ELSE [TakeName(ReplaceAllUsesWith(cc, placeholder, vv), vv, placeholder)
              EXCEPT !.llvmValues[sReg + 1] = vv])

(***************************************************************************)
(* The input: a method in MIR form.                                        *)
(*                                                                         *)
(* Register classes: "I" int, "J" long, "F" float, "D" double, "L" object. *)
(* SSA slots 0..numRegs-1 are the locals on entry, the next numIns slots   *)
(* are the argument words, the rest are the definitions in program order;  *)
(* a 64-bit value takes slot s and its high half s+1.                      *)
(***************************************************************************)
NoId == -1

IsWideClass(cls) == cls \in {"J", "D"}

ClassWords(cls) == IF IsWideClass(cls) THEN 2 ELSE 1

\* The RegLocation of a slot holding a value of the class.
ClassLoc(cls, s) ==
  MkLoc("kLocDalvikFrame", IsWideClass(cls), TRUE, cls \in {"F", "D"},
        cls \in {"I", "J"}, cls = "L", s, s)

\* The RegLocation of the high half of a 64-bit value.
HighLoc(cls, s) ==
  [MkLoc("kLocDalvikFrame", FALSE, TRUE, cls \in {"F", "D"},
         cls \in {"I", "J"}, FALSE, s, s) EXCEPT !.highWord = TRUE]

\* The RegLocation of a local on entry: nothing is known about it.
UntypedLoc(s) ==
  MkLoc("kLocDalvikFrame", FALSE, TRUE, FALSE, FALSE, FALSE, s, s)

\* oatDataFlowAttributes[opcode], as the classes of the operands: d the
\* destination vA, ua/ub/uc the uses of vA/vB/vC ("-" for none).
Shape(d, ua, ub, uc) == [d |-> d, ua |-> ua, ub |-> ub, uc |-> uc]

OpInfo(op) ==
  CASE op \in {"MOVE", "NEG_INT", "INT_TO_BYTE", "INT_TO_CHAR",
               "INT_TO_SHORT", "ADD_INT_LIT8", "ADD_INT_LIT16",
               "RSUB_INT", "RSUB_INT_LIT8", "MUL_INT_LIT8", "MUL_INT_LIT16",
               "DIV_INT_LIT8", "DIV_INT_LIT16", "REM_INT_LIT8",
               "REM_INT_LIT16", "AND_INT_LIT8", "AND_INT_LIT16",
               "OR_INT_LIT8", "OR_INT_LIT16", "XOR_INT_LIT8",
               "XOR_INT_LIT16", "SHL_INT_LIT8", "SHR_INT_LIT8",
               "USHR_INT_LIT8"} ->
         Shape("I", "-", "I", "-")
    [] op = "MOVE_OBJECT" -> Shape("L", "-", "L", "-")
    [] op = "MOVE_WIDE" -> Shape("J", "-", "J", "-")
    [] op \in {"CONST", "CONST_4", "SGET", "MOVE_RESULT"} ->
         Shape("I", "-", "-", "-")
    [] op \in {"CONST_WIDE", "SGET_WIDE"} -> Shape("J", "-", "-", "-")
    [] op \in {"SGET_OBJECT", "NEW_INSTANCE", "CONST_STRING", "CONST_CLASS",
               "MOVE_EXCEPTION"} ->
         Shape("L", "-", "-", "-")
    [] op \in {"SPUT", "RETURN", "IF_EQZ", "IF_NEZ", "IF_LTZ", "IF_GEZ",
               "IF_GTZ", "IF_LEZ"} ->
         Shape("-", "I", "-", "-")
    [] op \in {"SPUT_WIDE", "RETURN_WIDE"} -> Shape("-", "J", "-", "-")
    [] op \in {"SPUT_OBJECT", "RETURN_OBJECT", "CHECK_CAST", "MONITOR_ENTER",
               "MONITOR_EXIT", "THROW", "FILL_ARRAY_DATA"} ->
         Shape("-", "L", "-", "-")
    [] op \in {"IF_EQ", "IF_NE", "IF_LT", "IF_GE", "IF_GT", "IF_LE"} ->
         Shape("-", "I", "I", "-")
    [] op \in {"ADD_INT", "SUB_INT", "MUL_INT", "DIV_INT", "REM_INT",
               "AND_INT", "OR_INT", "XOR_INT", "SHL_INT", "SHR_INT",
               "USHR_INT", "kMirOpPhi"} ->
         Shape("I", "-", "I", "I")
    [] op \in {"ADD_LONG", "SUB_LONG", "MUL_LONG", "DIV_LONG", "REM_LONG",
               "AND_LONG", "OR_LONG", "XOR_LONG", "CMP_LONG_AS_LONG"} ->
         Shape("J", "-", "J", "J")
    [] op \in {"SHL_LONG", "SHR_LONG", "USHR_LONG"} ->
         Shape("J", "-", "J", "I")
    [] op \in {"ADD_FLOAT", "SUB_FLOAT", "MUL_FLOAT", "DIV_FLOAT",
               "REM_FLOAT"} ->
         Shape("F", "-", "F", "F")
    [] op \in {"ADD_DOUBLE", "SUB_DOUBLE", "MUL_DOUBLE", "DIV_DOUBLE",
               "REM_DOUBLE"} ->
         Shape("D", "-", "D", "D")
    [] op = "INT_TO_LONG" -> Shape("J", "-", "I", "-")
    [] op = "INT_TO_FLOAT" -> Shape("F", "-", "I", "-")
    [] op = "NEG_FLOAT" -> Shape("F", "-", "F", "-")
    [] op \in {"ARRAY_LENGTH", "INSTANCE_OF", "IGET"} ->
         Shape("I", "-", "L", "-")
    [] op = "IGET_OBJECT" -> Shape("L", "-", "L", "-")
    [] op = "IGET_WIDE" -> Shape("J", "-", "L", "-")
    [] op = "NEW_ARRAY" -> Shape("L", "-", "I", "-")
    [] op = "IPUT" -> Shape("-", "I", "L", "-")
    [] op = "IPUT_OBJECT" -> Shape("-", "L", "L", "-")
    [] op = "AGET" -> Shape("I", "-", "L", "I")
    [] op = "AGET_OBJECT" -> Shape("L", "-", "L", "I")
    [] op = "APUT" -> Shape("-", "I", "L", "I")
    [] OTHER -> Shape("-", "-", "-", "-")

\* The DF_ flags convertMIRNode reads.
OpAttrs(op) ==
  LET i == OpInfo(op) IN
  (IF i.d # "-" THEN {"DF_DA"} ELSE {})
  \cup (IF i.ua # "-" THEN {"DF_UA"} ELSE {})
  \cup (IF i.ub # "-" THEN {"DF_UB"} ELSE {})
  \cup (IF i.uc # "-" THEN {"DF_UC"} ELSE {})
  \cup (IF IsWideClass(i.d) \/ IsWideClass(i.ua) THEN {"DF_A_WIDE"} ELSE {})
  \cup (IF IsWideClass(i.ub) THEN {"DF_B_WIDE"} ELSE {})
  \cup (IF IsWideClass(i.uc) THEN {"DF_C_WIDE"} ELSE {})

IsInvoke(op) ==
  op \in {"INVOKE_STATIC", "INVOKE_VIRTUAL", "INVOKE_DIRECT", "INVOKE_SUPER",
          "INVOKE_INTERFACE", "FILLED_NEW_ARRAY"}

Max(a, b) == IF a >= b THEN a ELSE b

RECURSIVE Flatten(_)
Flatten(ss) == IF ss = <<>> THEN <<>> ELSE Head(ss) \o Flatten(Tail(ss))

\* An instruction to generate: opcode op in block bb, writing register reg
\* (when it defines one), with literal lit, and for an invoke the class res
\* of the result a following move-result takes ("-" when it is unused).
Item(op, reg, lit, res, bb) ==
  [op |-> op, reg |-> reg, lit |-> lit, res |-> res, bb |-> bb]

\* The class an item defines, "-" for none.
ItemDest(it) == IF IsInvoke(it.op) THEN it.res ELSE OpInfo(it.op).d

\* The classes an item uses, in ssaRep->uses order; a return takes the
\* class of the value it returns from res.
ItemSrcs(it) ==
  LET i == OpInfo(it.op) IN
  IF it.op \in {"RETURN", "RETURN_WIDE"} /\ it.res # "-" THEN <<it.res>>
  ELSE SelectSeq(<<i.ua, i.ub, i.uc>>, LAMBDA x : x # "-")

\* The generator's state before any instruction: the locals and the
\* argument words of a method with numRegs locals and arguments ins.
GenStart(numRegs, ins) ==
  LET argLocs == Flatten([k \in 1..Len(ins) |->
                   IF IsWideClass(ins[k]) THEN <<ins[k], "hi">> ELSE <<ins[k]>>])
      base(k) == numRegs
                 + Cardinality({j \in 1..Len(argLocs) : j < k})
      lowOf(k) == IF argLocs[k] = "hi" THEN argLocs[k - 1] ELSE argLocs[k]
  IN [mirs |-> <<>>,
      regLocation |->
        [s \in 1..numRegs |-> UntypedLoc(s - 1)]
        \o [k \in 1..Len(argLocs) |->
              IF argLocs[k] = "hi" THEN HighLoc(lowOf(k), base(k))
              ELSE ClassLoc(argLocs[k], base(k))],
      vreg |-> [s \in 1..(numRegs + Len(argLocs)) |-> s - 1],
      sub |-> [s \in 1..(numRegs + Len(argLocs)) |-> 0],
      avail |-> [cls \in {"I", "J", "F", "D", "L"} |->
                   SelectSeq([k \in 1..Len(argLocs) |->
                                IF argLocs[k] = cls THEN base(k) ELSE NoId],
                             LAMBDA x : x # NoId)],
      argWords |-> [k \in 1..Len(argLocs) |-> base(k)],
      ok |-> TRUE]

\* The generator's step: the MIR of one item, its uses resolved to the most
\* recent values of the right class and its definition given a new slot.
AddMIR(g, it) ==
  LET srcs == ItemSrcs(it)
      nth(i) == Cardinality({j \in 1..(i - 1) : srcs[j] = srcs[i]})
      pick(i) == LET av == g.avail[srcs[i]]
                 IN IF av = <<>> THEN NoId
                    ELSE av[Max(1, Len(av) - nth(i))]
      uses == IF IsInvoke(it.op) THEN g.argWords
              ELSE Flatten([i \in 1..Len(srcs) |->
                     IF IsWideClass(srcs[i]) THEN <<pick(i), pick(i) + 1>>
                     ELSE <<pick(i)>>])
      d == ItemDest(it)
      s == Len(g.regLocation)
      subOf(r) == Cardinality({j \in 1..Len(g.vreg) : g.vreg[j] = r})
      valid == \A i \in 1..Len(srcs) : g.avail[srcs[i]] # <<>>
      mir == [opcode |-> it.op, offset |-> Len(g.mirs), bb |-> it.bb,
              attrs |-> OpAttrs(it.op), uses |-> uses,
              defs |-> IF d = "-" THEN <<>>
                       ELSE IF IsWideClass(d) THEN <<s, s + 1>> ELSE <<s>>,
              vA |-> it.reg, vB |-> it.lit, vC |-> it.lit,
              optFlags |-> 0, incoming |-> <<>>,
              result |-> IF IsInvoke(it.op) /\ d # "-" THEN s
                         ELSE INVALID_SREG]
      g1 == [g EXCEPT !.mirs = Append(@, mir), !.ok = @ /\ valid]
  IN IF d = "-" THEN g1
     ELSE IF IsWideClass(d)
       THEN [g1 EXCEPT
               !.regLocation = @ \o <<ClassLoc(d, s), HighLoc(d, s + 1)>>,
               !.vreg = @ \o <<it.reg, it.reg + 1>>,
               !.sub = @ \o <<subOf(it.reg), subOf(it.reg + 1)>>,
               !.avail[d] = Append(@, s)]
       ELSE [g1 EXCEPT
               !.regLocation = Append(@, ClassLoc(d, s)),
               !.vreg = Append(@, it.reg),
               !.sub = Append(@, subOf(it.reg)),
               !.avail[d] = Append(@, s)]

RECURSIVE Gen(_, _)
Gen(g0, items) ==
  With(g0, LAMBDA g :
    IF items = <<>> THEN g ELSE Gen(AddMIR(g, Head(items)), Tail(items)))

WithBB(items, b) == [i \in 1..Len(items) |-> [items[i] EXCEPT !.bb = b]]

\* The return that ends a straight-line body: of the value the last
\* instruction defined, or of nothing.
RetItem(body, b) ==
  LET d == IF body = <<>> THEN "-" ELSE ItemDest(body[Len(body)]) IN
  CASE d = "-" -> Item("RETURN_VOID", 0, 0, "-", b)
    [] d = "L" -> Item("RETURN_OBJECT", 0, 0, "-", b)
    [] d \in {"J", "D"} -> Item("RETURN_WIDE", 0, 0, d, b)
    [] OTHER -> Item("RETURN", 0, 0, d, b)

BB(id, blockType, taken, fallThrough) ==
  [id |-> id, blockType |-> blockType, taken |-> taken,
   fallThrough |-> fallThrough]

\* The control-flow shapes: the items in program order, the blocks (block i
\* is element i+1; 0 is the entry, 1 the exit) and the preorder DFS.  A
\* block that ends in THROW has no fall-through successor; one that ends in
\* THROW_VERIFICATION_ERROR keeps the instruction after it as its
\* fall-through successor, as after any instruction that may throw.
Template(t, body) ==
  CASE t = "straight" ->
         [items |-> WithBB(body, 2) \o <<RetItem(body, 2)>>,
          blocks |-> <<BB(0, "kEntryBlock", NoId, 2),
                       BB(1, "kExitBlock", NoId, NoId),
                       BB(2, "kDalvikByteCode", NoId, 1)>>,
          dfsOrder |-> <<0, 2, 1>>]
    [] t = "exc" ->
         [items |-> WithBB(body, 2) \o <<RetItem(body, 2)>>,
          blocks |-> <<BB(0, "kEntryBlock", NoId, 2),
                       BB(1, "kExitBlock", NoId, NoId),
                       BB(2, "kDalvikByteCode", NoId, 1),
                       BB(3, "kExceptionHandling", NoId, NoId)>>,
          dfsOrder |-> <<0, 2, 3, 1>>]
    [] t \in {"loop_do", "loop_doz"} ->
         [items |-> WithBB(body, 2)
                    \o <<Item(IF t = "loop_do" THEN "IF_NE" ELSE "IF_EQZ",
                              0, 0, "-", 2),
                         Item("RETURN_VOID", 0, 0, "-", 3)>>,
          blocks |-> <<BB(0, "kEntryBlock", NoId, 2),
                       BB(1, "kExitBlock", NoId, NoId),
                       BB(2, "kDalvikByteCode", 2, 3),
                       BB(3, "kDalvikByteCode", NoId, 1)>>,
          dfsOrder |-> <<0, 2, 3, 1>>]
    [] t = "fwd" ->
         [items |-> WithBB(body, 2)
                    \o <<Item("IF_LT", 0, 0, "-", 2),
                         Item("GOTO", 0, 0, "-", 3),
                         Item("RETURN_VOID", 0, 0, "-", 4)>>,
          blocks |-> <<BB(0, "kEntryBlock", NoId, 2),
                       BB(1, "kExitBlock", NoId, NoId),
                       BB(2, "kDalvikByteCode", 4, 3),
                       BB(3, "kDalvikByteCode", 4, NoId),
                       BB(4, "kDalvikByteCode", NoId, 1)>>,
          dfsOrder |-> <<0, 2, 3, 4, 1>>]
    [] t = "throw" ->
         [items |-> WithBB(body, 2)
                    \o <<Item("IF_EQZ", 0, 0, "-", 2),
                         Item("THROW", 0, 0, "-", 3),
                         Item("RETURN_VOID", 0, 0, "-", 4)>>,
          blocks |-> <<BB(0, "kEntryBlock", NoId, 2),
                       BB(1, "kExitBlock", NoId, NoId),
                       BB(2, "kDalvikByteCode", 4, 3),
                       BB(3, "kDalvikByteCode", NoId, NoId),
                       BB(4, "kDalvikByteCode", NoId, 1)>>,
          dfsOrder |-> <<0, 2, 3, 4, 1>>]
    [] t = "tve" ->
         [items |-> WithBB(body, 2)
                    \o <<Item("THROW_VERIFICATION_ERROR", 0, 0, "-", 2),
                         Item("RETURN_VOID", 0, 0, "-", 3)>>,
          blocks |-> <<BB(0, "kEntryBlock", NoId, 2),
                       BB(1, "kExitBlock", NoId, NoId),
                       BB(2, "kDalvikByteCode", NoId, 3),
                       BB(3, "kDalvikByteCode", NoId, 1)>>,
          dfsOrder |-> <<0, 2, 3, 1>>]
    [] t = "loop_while" ->
         [items |-> <<Item("CONST", 0, 0, "-", 2),
                      Item("kMirOpPhi", 0, 0, "-", 3),
                      Item("IF_GEZ", 0, 0, "-", 3)>>
                    \o WithBB(body, 4)
                    \o <<Item("ADD_INT_LIT8", 0, 1, "-", 4),
                         Item("GOTO", 0, 0, "-", 4),
                         Item("RETURN_VOID", 0, 0, "-", 5)>>,
          blocks |-> <<BB(0, "kEntryBlock", NoId, 2),
                       BB(1, "kExitBlock", NoId, NoId),
                       BB(2, "kDalvikByteCode", NoId, 3),
                       BB(3, "kDalvikByteCode", 5, 4),
                       BB(4, "kDalvikByteCode", 3, NoId),
                       BB(5, "kDalvikByteCode", NoId, 1)>>,
          dfsOrder |-> <<0, 2, 3, 4, 5, 1>>]

\* The phi of the loop header merges the value before the loop with the one
\* the loop's last increment defines; the increment is generated after the
\* phi, so its slot is filled in afterwards.
PatchPhi(mirs0) ==
  With(mirs0, LAMBDA mirs :
    [i \in 1..Len(mirs) |->
       IF mirs[i].opcode = "kMirOpPhi"
         THEN [mirs[i] EXCEPT
                 !.uses = <<mirs[i - 1].defs[1],
                            mirs[Len(mirs) - 2].defs[1]>>,
                 !.incoming = <<mirs[i - 1].bb, mirs[Len(mirs) - 2].bb>>]
         ELSE mirs[i]])

\* The method in MIR form: the method header, the SSA register table and
\* the blocks with their MIRs.
BuildMethod(t, numRegs, ins, isStatic, body) ==
  With(Template(t, body), LAMBDA tm :
    With(Gen(GenStart(numRegs, ins), tm.items), LAMBDA g :
      With(PatchPhi(g.mirs), LAMBDA mirs :
        [ok |-> g.ok,
         tmpl |-> t,
         numRegs |-> numRegs,
         numIns |-> Len(g.argWords),
         ins |-> ins,
         isStatic |-> isStatic,
         retClass |-> IF t \in {"straight", "exc"} /\ body # <<>>
                           /\ ItemDest(body[Len(body)]) # "-"
                        THEN ItemDest(body[Len(body)])
                        ELSE "V",
         isLeaf |-> \A i \in 1..Len(tm.items) : ~IsInvoke(tm.items[i].op),
         numSSARegs |-> Len(g.regLocation),
         regLocation |-> g.regLocation,
         vreg |-> g.vreg,
         sub |-> g.sub,
         blocks |-> [i \in 1..Len(tm.blocks) |->
                       With(SelectSeq(mirs, LAMBDA x : x.bb = i - 1),
                            LAMBDA mine :
                         [id |-> tm.blocks[i].id,
                          blockType |-> tm.blocks[i].blockType,
                          taken |-> tm.blocks[i].taken,
                          fallThrough |-> tm.blocks[i].fallThrough,
                          startOffset |->
                            IF mine # <<>> THEN mine[1].offset
                            ELSE IF tm.blocks[i].blockType
                                    = "kExceptionHandling"
                              THEN Len(mirs)
                              ELSE 0,
                          mirs |-> mine])],
         dfsOrder |-> tm.dfsOrder])))

\* oatSRegToVReg, oatSRegToSubscript
SRegToVReg(m, s) == m.vreg[s + 1]

SRegToSubscript(m, s) == m.sub[s + 1]

\* llvmSSAName: "v%d_%d" of the register and the subscript
llvmSSAName(m, s) == <<"v", SRegToVReg(m, s), SRegToSubscript(m, s)>>

(***************************************************************************)
(* The forward pass, MIR to bitcode.  A converter takes the compilation    *)
(* unit c (and the method m it compiles) and gives the unit afterwards.    *)
(***************************************************************************)
\* The type an intrinsic returns.
IntrinsicRetTy(id) ==
  CASE id \in {"ConstInt", "CopyInt", "HLSget", "HLSgetBoolean", "HLSgetByte",
               "HLSgetChar", "HLSgetShort", "DivInt", "RemInt", "ArrayLength",
               "InstanceOf", "HLInvokeInt", "HLArrayGet", "HLIGet",
               "IntToChar", "IntToShort", "IntToByte"} -> "Int32"
    [] id \in {"ConstLong", "CopyLong", "HLSgetWide", "DivLong", "RemLong",
               "HLInvokeLong", "HLArrayGetWide", "HLIGetWide"} -> "Int64"
    [] id \in {"ConstFloat", "CopyFloat", "HLSgetFloat", "HLInvokeFloat",
               "HLArrayGetFloat", "HLIGetFloat"} -> "Float"
    [] id \in {"ConstDouble", "CopyDouble", "HLSgetDouble", "HLInvokeDouble",
               "HLArrayGetDouble", "HLIGetDouble"} -> "Double"
    [] id \in {"ConstObj", "CopyObj", "HLSgetObject", "HLInvokeObj",
               "HLArrayGetObject", "HLIGetObject", "GetException",
               "ConstString", "ConstClass", "NewInstance", "NewArray",
               "FilledNewArray", "AllocaShadowFrame"} -> "JObject"
    [] OTHER -> "Void"

\* irb->CreateCall(intrinsic, args)
CreateCall(c, id, args) == Emit(c, "Call", id, args, IntrinsicRetTy(id), <<>>)

\* irb->CreateAdd and the other two-operand instructions: the result has
\* the type of the first operand.
CreateBinary(c, op, src1, src2) ==
  Emit(c, op, "none", <<src1, src2>>, TypeOfValue(c, src1), <<>>)

\* The unit after initIR and oatInitGrowableList.
NewUnit(m) ==
  [llvmValues |-> <<>>,
   idToBlockMap |-> [i \in 1..Len(m.blocks) |-> NoBlock],
   blocks |-> <<>>,
   args |-> <<>>,
   retTy |-> "none",
   ip |-> NoBlock,
   off |-> NoOff,
   nv |-> 0,
   tempName |-> 0,
   currentDalvikOffset |-> 0,
   numShadowFrameEntries |-> 0,
   shadowMap |-> <<>>,
   allocaShadowFrame |-> FALSE,
   fallThrough |-> [i \in 1..Len(m.blocks) |-> m.blocks[i].fallThrough],
   hasReturn |-> [i \in 1..Len(m.blocks) |-> FALSE],
   entryBB |-> NoBlock,
   placeholderBB |-> NoBlock,
   verified |-> "none",
   res |-> FALSE,
   log |-> <<>>,
   status |-> "ok",
   locMap |-> <<>>,
   lir |-> <<>>]

\* irb->GetJType(shorty char, kAccurate)
GetJType(cls) ==
  CASE cls = "V" -> "Void"
    [] cls = "I" -> "Int32"
    [] cls = "J" -> "Int64"
    [] cls = "F" -> "Float"
    [] cls = "D" -> "Double"
    [] cls = "L" -> "JObject"

emitConst(c, src, loc) ==
  CreateCall(c,
    IF loc.wide THEN (IF loc.fp THEN "ConstDouble" ELSE "ConstLong")
    ELSE IF loc.fp THEN "ConstFloat"
    ELSE IF loc.ref THEN "ConstObj" ELSE "ConstInt", src)

emitPopShadowFrame(c) == CreateCall(c, "PopShadowFrame", <<>>)

emitCopy(c, src, loc) ==
  CreateCall(c,
    IF loc.wide THEN (IF loc.fp THEN "CopyDouble" ELSE "CopyLong")
    ELSE IF loc.fp THEN "CopyFloat"
    ELSE IF loc.ref THEN "CopyObj" ELSE "CopyInt", src)

emitSuspendCheck(c) == CreateCall(c, "CheckSuspend", <<>>)

\* Define the slot with the value of the instruction emitted last.
DefineLast(c, sReg) ==
  With(c, LAMBDA cc : defineValue(cc, LastVal(cc), sReg))

convertSget(c, fieldIndex, id, rlDest) ==
  DefineLast(CreateCall(c, id, <<CInt(fieldIndex)>>), rlDest.origSReg)

convertSput(c, fieldIndex, id, rlSrc) ==
  CreateCall(c, id, <<CInt(fieldIndex), getLLVMValue(c, rlSrc.origSReg)>>)

convertFillArrayData(c, offset, rlArray) ==
  CreateCall(c, "FillArrayData",
             <<CInt(offset), getLLVMValue(c, rlArray.origSReg)>>)

convertMoveException(c, rlDest) ==
  DefineLast(CreateCall(c, "GetException", <<>>), rlDest.origSReg)

convertThrow(c, rlSrc) ==
  Emit(CreateCall(c, "Throw", <<getLLVMValue(c, rlSrc.origSReg)>>),
       "Unreachable", "none", <<>>, "Void", <<>>)

convertMonitorEnterExit(c, optFlags, id, rlSrc) ==
  CreateCall(c, id, <<CInt(optFlags), getLLVMValue(c, rlSrc.origSReg)>>)

\* convertArrayLength is not handed the destination and defines nothing.
convertArrayLength(c, optFlags, rlSrc) ==
  CreateCall(c, "ArrayLength",
             <<CInt(optFlags), getLLVMValue(c, rlSrc.origSReg)>>)

convertThrowVerificationError(c, info1, info2) ==
  Emit(CreateCall(c, "Throw", <<CInt(info1), CInt(info2)>>),
       "Unreachable", "none", <<>>, "Void", <<>>)

\* convertCompare: the ICmp of the condition code
convertCompare(c, cc, src1, src2) ==
  IF cc \in {"kCondEq", "kCondNe", "kCondLt", "kCondGe", "kCondGt", "kCondLe"}
    THEN Emit(c, "ICmp", cc, <<src1, src2>>, "Int1", <<>>)
    ELSE Fatal(c, "Unexpected cc value")

\* A plausible slip: the block's fallThrough is left for the block driver.
CompareBranchTail_KeepsFallThrough(c, m, bb, cc, src1, src2) ==
  With(convertCompare(c, cc, src1, src2), LAMBDA c1 :
    With([SetName(c1, LastVal(c1), <<"t", c1.tempName, 0>>)
            EXCEPT !.tempName = @ + 1], LAMBDA c2 :
      Emit(c2, "CondBr", "none", <<LastVal(c1)>>, "Void",
           <<getLLVMBlock(c2, m.blocks[bb + 1].taken + 1),
             getLLVMBlock(c2, c2.fallThrough[bb + 1] + 1)>>)))

\* The compare and the conditional branch both compare-and-branch
\* converters end with: the condition is named t<n>, the branch goes to the
\* taken and the fall-through block, and the block's fallThrough is cleared.
CompareBranchTail(c, m, bb, cc, src1, src2) ==
  With(convertCompare(c, cc, src1, src2), LAMBDA c1 :
    With([SetName(c1, LastVal(c1), <<"t", c1.tempName, 0>>)
            EXCEPT !.tempName = @ + 1], LAMBDA c2 :
      [Emit(c2, "CondBr", "none", <<LastVal(c1)>>, "Void",
            <<getLLVMBlock(c2, m.blocks[bb + 1].taken + 1),
              getLLVMBlock(c2, c2.fallThrough[bb + 1] + 1)>>)
         EXCEPT !.fallThrough[bb + 1] = NoId]))

\* A plausible slip: only a strictly backward target gets the check.
convertCompareAndBranch_Strict(c, m, bb, mir, cc, rlSrc1, rlSrc2) ==
  With(IF m.blocks[m.blocks[bb + 1].taken + 1].startOffset < mir.offset
         THEN emitSuspendCheck(c) ELSE c, LAMBDA c0 :
    CompareBranchTail(c0, m, bb, cc, getLLVMValue(c0, rlSrc1.origSReg),
                      getLLVMValue(c0, rlSrc2.origSReg)))

convertCompareAndBranch(c, m, bb, mir, cc, rlSrc1, rlSrc2) ==
  With(IF m.blocks[m.blocks[bb + 1].taken + 1].startOffset <= mir.offset
         THEN emitSuspendCheck(c) ELSE c, LAMBDA c0 :
    CompareBranchTail(c0, m, bb, cc, getLLVMValue(c0, rlSrc1.origSReg),
                      getLLVMValue(c0, rlSrc2.origSReg)))

convertCompareZeroAndBranch(c, m, bb, mir, cc, rlSrc1) ==
  With(IF m.blocks[m.blocks[bb + 1].taken + 1].startOffset <= mir.offset
         THEN emitSuspendCheck(c) ELSE c, LAMBDA c0 :
    CompareBranchTail(c0, m, bb, cc, getLLVMValue(c0, rlSrc1.origSReg),
                      IF rlSrc1.ref THEN JNull ELSE CInt(0)))

genDivModOp(c, isDiv, isLong, src1, src2) ==
  CreateCall(c,
    IF isLong THEN (IF isDiv THEN "DivLong" ELSE "RemLong")
    ELSE IF isDiv THEN "DivInt" ELSE "RemInt", <<src1, src2>>)

genArithOp(c, op, isLong, src1, src2) ==
  CASE op = "kOpAdd" -> CreateBinary(c, "Add", src1, src2)
    [] op = "kOpSub" -> CreateBinary(c, "Sub", src1, src2)
    [] op = "kOpRsub" -> CreateBinary(c, "Sub", src2, src1)
    [] op = "kOpMul" -> CreateBinary(c, "Mul", src1, src2)
    [] op = "kOpOr" -> CreateBinary(c, "Or", src1, src2)
    [] op = "kOpAnd" -> CreateBinary(c, "And", src1, src2)
    [] op = "kOpXor" -> CreateBinary(c, "Xor", src1, src2)
    [] op = "kOpDiv" -> genDivModOp(c, TRUE, isLong, src1, src2)
    [] op = "kOpRem" -> genDivModOp(c, FALSE, isLong, src1, src2)
    [] op = "kOpLsl" -> CreateBinary(c, "Shl", src1, src2)
    [] op = "kOpLsr" -> CreateBinary(c, "LShr", src1, src2)
    [] op = "kOpAsr" -> CreateBinary(c, "AShr", src1, src2)
    [] OTHER -> Fatal(c, "Invalid op")

convertFPArithOp(c, op, rlDest, rlSrc1, rlSrc2) ==
  With3(getLLVMValue(c, rlSrc1.origSReg), getLLVMValue(c, rlSrc2.origSReg),
        rlDest.origSReg, LAMBDA src1, src2, sReg :
    With(CASE op = "kOpAdd" -> CreateBinary(c, "FAdd", src1, src2)
           [] op = "kOpSub" -> CreateBinary(c, "FSub", src1, src2)
           [] op = "kOpMul" -> CreateBinary(c, "FMul", src1, src2)
           [] op = "kOpDiv" -> CreateBinary(c, "FDiv", src1, src2)
           [] op = "kOpRem" -> CreateBinary(c, "FRem", src1, src2)
           [] OTHER -> Fatal(c, "Invalid op"), LAMBDA c1 :
      IF c1.status = "fatal" THEN c1 ELSE DefineLast(c1, sReg)))

\* convertShift: a 64-bit shift first widens the count with a ZExt.
convertShift(c, op, rlDest, rlSrc1, rlSrc2) ==
  With3(getLLVMValue(c, rlSrc1.origSReg), getLLVMValue(c, rlSrc2.origSReg),
        rlDest, LAMBDA src1, src2, dest :
    With(IF dest.wide
           THEN Emit(c, "ZExt", "none", <<src2>>, "Int64", <<>>)
           ELSE c, LAMBDA c1 :
      With(genArithOp(c1, op, dest.wide, src1,
                      IF dest.wide THEN LastVal(c1) ELSE src2), LAMBDA c2 :
        IF c2.status = "fatal" THEN c2 ELSE DefineLast(c2, dest.origSReg))))

convertArithOp(c, op, rlDest, rlSrc1, rlSrc2) ==
  With(genArithOp(c, op, rlDest.wide,
                  getLLVMValue(c, rlSrc1.origSReg),
                  getLLVMValue(c, rlSrc2.origSReg)), LAMBDA c1 :
    IF c1.status = "fatal" THEN c1 ELSE DefineLast(c1, rlDest.origSReg))

convertArithOpLit(c, op, rlDest, rlSrc1, imm) ==
  With(genArithOp(c, op, rlDest.wide,
                  getLLVMValue(c, rlSrc1.origSReg), CInt(imm)), LAMBDA c1 :
    IF c1.status = "fatal" THEN c1 ELSE DefineLast(c1, rlDest.origSReg))

LocMapHas(c, v) == \E i \in 1..Len(c.locMap) : c.locMap[i].val = v

LocMapGet(c, v) ==
  c.locMap[CHOOSE i \in 1..Len(c.locMap) : c.locMap[i].val = v].loc

\* locMap.Put
LocMapPut(c, v, loc) ==
  IF LocMapHas(c, v)
    THEN [c EXCEPT !.locMap =
            [i \in 1..Len(@) |-> IF @[i].val = v
                                   THEN [val |-> v, loc |-> loc] ELSE @[i]]]
    ELSE [c EXCEPT !.locMap = Append(@, [val |-> v, loc |-> loc])]

\* The location of an unnamed temporary.
TempLoc(wide) ==
  [MkLoc("kLocPhysReg", wide, FALSE, FALSE, FALSE, FALSE, INVALID_SREG,
         INVALID_SREG) EXCEPT !.home = TRUE]

\* regLocation read at the register number a value's name starts with.
getLocOfName(m, nm) ==
  IF nm[1] = "v" /\ nm[2] >= 0 /\ nm[2] < Len(m.regLocation)
    THEN m.regLocation[nm[2] + 1]
    ELSE badLoc

\* getLoc as the forward pass meets it, regLocation at hand: the location
\* of a value is the one locMap holds, or else it is that of a temporary
\* for a value without a name and regLocation's for a named one, and
\* enters locMap.
getLocForward(c, m, val) ==
  With2(c, val, LAMBDA cc, vv :
    IF LocMapHas(cc, vv) THEN [c |-> cc, loc |-> LocMapGet(cc, vv)]
    ELSE With(IF NameOfValue(cc, vv) = NoName
                THEN TempLoc(TypeOfValue(cc, vv) \in {"Int64", "Double"})
                ELSE getLocOfName(m, NameOfValue(cc, vv)), LAMBDA res :
           [c |-> LocMapPut(cc, vv, res), loc |-> res]))

\* The slot of a register in the shadow map, -1 when it has none.
ShadowIndex(c, vReg) ==
  IF \E i \in 1..Len(c.shadowMap) : c.shadowMap[i] = vReg
    THEN (CHOOSE i \in 1..Len(c.shadowMap) :
            /\ c.shadowMap[i] = vReg
            /\ \A j \in 1..(i - 1) : c.shadowMap[j] # vReg) - 1
    ELSE -1

setShadowFrameEntry(c, m, newVal) ==
  With2(getLocForward(c, m, newVal), newVal, LAMBDA r, nv :
    With2(r.c, r.loc.origSReg, LAMBDA cc, sReg :
      CreateCall(cc, "SetShadowFrameEntry",
                 <<nv, CInt(ShadowIndex(cc, IF sReg >= 0
                                              THEN SRegToVReg(m, sReg)
                                              ELSE sReg))>>)))

\* oatNewCallInfo: the argument locations are those of the uses, the
\* result that of the move-result that follows (kLocInvalid without one).
CallInfo(m, mir) ==
  [index |-> mir.vB,
   optFlags |-> mir.optFlags,
   numArgWords |-> Len(mir.uses),
   args |-> [i \in 1..Len(mir.uses) |-> m.regLocation[mir.uses[i] + 1]],
   result |-> IF mir.result = INVALID_SREG
                THEN [badLoc EXCEPT !.location = "kLocInvalid"]
                ELSE m.regLocation[mir.result + 1]]

\* The argument values of an invoke: the low word of every argument, a
\* 64-bit argument stepping over its high word.
RECURSIVE InvokeArgs(_, _, _)
InvokeArgs(c, info, i) ==
  IF i >= info.numArgWords THEN <<>>
  ELSE <<getLLVMValue(c, info.args[i + 1].origSReg)>>
       \o InvokeArgs(c, info, i + (IF info.args[i + 1].wide THEN 2 ELSE 1))

InvokeTypeCode(invokeType) ==
  CASE invokeType = "kStatic" -> 0
    [] invokeType = "kDirect" -> 1
    [] invokeType = "kVirtual" -> 2
    [] invokeType = "kSuper" -> 3
    [] invokeType = "kInterface" -> 4

convertInvoke(c, m, mir, invokeType, isRange, isNewArray) ==
  With(CallInfo(m, mir), LAMBDA info :
    With(CreateCall(c,
           IF isNewArray THEN "NewArray"
           ELSE IF info.result.location = "kLocInvalid" THEN "HLInvokeVoid"
           ELSE IF info.result.wide
             THEN (IF info.result.fp THEN "HLInvokeDouble"
                   ELSE "HLInvokeLong")
           ELSE IF info.result.ref THEN "HLInvokeObj"
           ELSE IF info.result.fp THEN "HLInvokeFloat"
           ELSE "HLInvokeInt",
           <<CInt(InvokeTypeCode(invokeType)), CInt(info.index),
             CInt(info.optFlags)>> \o InvokeArgs(c, info, 0)), LAMBDA c1 :
      IF info.result.location # "kLocInvalid"
        THEN DefineLast(c1, info.result.origSReg)
        ELSE c1))

convertConstObject(c, idx, id, rlDest) ==
  DefineLast(CreateCall(c, id, <<CInt(idx)>>), rlDest.origSReg)

convertCheckCast(c, type_idx, rlSrc) ==
  CreateCall(c, "CheckCast",
             <<CInt(type_idx), getLLVMValue(c, rlSrc.origSReg)>>)

convertNewInstance(c, type_idx, rlDest) ==
  DefineLast(CreateCall(c, "NewInstance", <<CInt(type_idx)>>),
             rlDest.origSReg)

convertNewArray(c, type_idx, rlDest, rlSrc) ==
  DefineLast(CreateCall(c, "NewArray",
                        <<CInt(type_idx), getLLVMValue(c, rlSrc.origSReg)>>),
             rlDest.origSReg)

convertAget(c, optFlags, id, rlDest, rlArray, rlIndex) ==
  DefineLast(CreateCall(c, id, <<CInt(optFlags),
                                 getLLVMValue(c, rlArray.origSReg),
                                 getLLVMValue(c, rlIndex.origSReg)>>),
             rlDest.origSReg)

convertAput(c, optFlags, id, rlSrc, rlArray, rlIndex) ==
  CreateCall(c, id, <<CInt(optFlags), getLLVMValue(c, rlSrc.origSReg),
                      getLLVMValue(c, rlArray.origSReg),
                      getLLVMValue(c, rlIndex.origSReg)>>)

convertIget(c, optFlags, id, rlDest, rlObj, fieldIndex) ==
  DefineLast(CreateCall(c, id, <<CInt(optFlags),
                                 getLLVMValue(c, rlObj.origSReg),
                                 CInt(fieldIndex)>>),
             rlDest.origSReg)

convertIput(c, optFlags, id, rlSrc, rlObj, fieldIndex) ==
  CreateCall(c, id, <<CInt(optFlags), getLLVMValue(c, rlSrc.origSReg),
                      getLLVMValue(c, rlObj.origSReg), CInt(fieldIndex)>>)

convertInstanceOf(c, type_idx, rlDest, rlSrc) ==
  DefineLast(CreateCall(c, "InstanceOf",
                        <<CInt(type_idx), getLLVMValue(c, rlSrc.origSReg)>>),
             rlDest.origSReg)

convertIntToLong(c, rlDest, rlSrc) ==
  DefineLast(Emit(c, "SExt", "none", <<getLLVMValue(c, rlSrc.origSReg)>>,
                  "Int64", <<>>),
             rlDest.origSReg)

convertIntNarrowing(c, rlDest, rlSrc, id) ==
  DefineLast(CreateCall(c, id, <<getLLVMValue(c, rlSrc.origSReg)>>),
             rlDest.origSReg)

\* oatGetSrc, oatGetSrcWide: the location of the n-th use
GetSrc(m, mir, n) ==
  IF n < Len(mir.uses) THEN m.regLocation[mir.uses[n + 1] + 1] ELSE badLoc

\* convertMIRNode's "Prep Src and Dest locations": rlSrc[0..2]
PrepSrc(m, mir) ==
  LET has(f) == f \in mir.attrs
      nA == IF has("DF_UA") THEN (IF has("DF_A_WIDE") THEN 2 ELSE 1) ELSE 0
      nB == nA + (IF has("DF_UB")
                    THEN (IF has("DF_B_WIDE") THEN 2 ELSE 1) ELSE 0)
      idxs == (IF has("DF_UA") THEN <<0>> ELSE <<>>)
              \o (IF has("DF_UB") THEN <<nA>> ELSE <<>>)
              \o (IF has("DF_UC") THEN <<nB>> ELSE <<>>)
  IN [k \in 1..3 |-> IF k <= Len(idxs) THEN GetSrc(m, mir, idxs[k])
                     ELSE badLoc]

\* convertMIRNode's rlDest
PrepDest(m, mir) ==
  IF "DF_DA" \in mir.attrs THEN m.regLocation[mir.defs[1] + 1] ELSE badLoc

\* The OpKind of an arithmetic opcode.
OpKindOf(opcode) ==
  CASE opcode \in {"ADD_INT", "ADD_LONG", "ADD_INT_LIT8", "ADD_INT_LIT16",
                   "ADD_FLOAT", "ADD_DOUBLE"} -> "kOpAdd"
    [] opcode \in {"SUB_INT", "SUB_LONG", "SUB_FLOAT", "SUB_DOUBLE"} ->
         "kOpSub"
    [] opcode \in {"RSUB_INT", "RSUB_INT_LIT8"} -> "kOpRsub"
    [] opcode \in {"MUL_INT", "MUL_LONG", "MUL_INT_LIT8", "MUL_INT_LIT16",
                   "MUL_FLOAT", "MUL_DOUBLE"} -> "kOpMul"
    [] opcode \in {"DIV_INT", "DIV_LONG", "DIV_INT_LIT8", "DIV_INT_LIT16",
                   "DIV_FLOAT", "DIV_DOUBLE"} -> "kOpDiv"
    [] opcode \in {"REM_INT", "REM_LONG", "REM_INT_LIT8", "REM_INT_LIT16",
                   "REM_FLOAT", "REM_DOUBLE"} -> "kOpRem"
    [] opcode \in {"AND_INT", "AND_LONG", "AND_INT_LIT8", "AND_INT_LIT16"} ->
         "kOpAnd"
    [] opcode \in {"OR_INT", "OR_LONG", "OR_INT_LIT8", "OR_INT_LIT16"} ->
         "kOpOr"
    [] opcode \in {"XOR_INT", "XOR_LONG", "XOR_INT_LIT8", "XOR_INT_LIT16"} ->
         "kOpXor"
    [] opcode \in {"SHL_INT", "SHL_LONG", "SHL_INT_LIT8"} -> "kOpLsl"
    [] opcode \in {"SHR_INT", "SHR_LONG", "SHR_INT_LIT8"} -> "kOpAsr"
    [] opcode \in {"USHR_INT", "USHR_LONG", "USHR_INT_LIT8"} -> "kOpLsr"
    [] OTHER -> "kOpInvalid"

\* The condition code of a conditional branch opcode.
CondOf(opcode) ==
  CASE opcode \in {"IF_EQ", "IF_EQZ"} -> "kCondEq"
    [] opcode \in {"IF_NE", "IF_NEZ"} -> "kCondNe"
    [] opcode \in {"IF_LT", "IF_LTZ"} -> "kCondLt"
    [] opcode \in {"IF_GE", "IF_GEZ"} -> "kCondGe"
    [] opcode \in {"IF_GT", "IF_GTZ"} -> "kCondGt"
    [] opcode \in {"IF_LE", "IF_LEZ"} -> "kCondLe"

InvokeTypeOf(opcode) ==
  CASE opcode = "INVOKE_STATIC" -> "kStatic"
    [] opcode = "INVOKE_DIRECT" -> "kDirect"
    [] opcode = "INVOKE_VIRTUAL" -> "kVirtual"
    [] opcode = "INVOKE_SUPER" -> "kSuper"
    [] OTHER -> "kInterface"

\* RETURN, RETURN_WIDE, RETURN_OBJECT and RETURN_VOID: a suspend check
\* unless the method is a leaf, the shadow frame pop, the return.
convertReturn(c, m, bb, vals) ==
  [Emit(emitPopShadowFrame(IF ~m.isLeaf THEN emitSuspendCheck(c) ELSE c),
        "Ret", "none", vals, "Void", <<>>)
     EXCEPT !.hasReturn[bb + 1] = TRUE]

\* GOTO: a suspend check when the target does not start after this block.
convertGoto(c, m, bb) ==
  Emit(IF m.blocks[m.blocks[bb + 1].taken + 1].startOffset
            <= m.blocks[bb + 1].startOffset
         THEN emitSuspendCheck(c) ELSE c,
       "Br", "none", <<>>, "Void",
       <<getLLVMBlock(c, m.blocks[bb + 1].taken + 1)>>)

\* The default case: UNIMPLEMENTED(FATAL) writes the opcode's number and
\* aborts the process; the "res = true" after it is never reached.
unsupportedOpcode(c, mir) ==
  [c EXCEPT !.status = "fatal",
            !.log = Append(@, [level |-> "FATAL",
                               what |-> "Unsupported Dex opcode 0x",
                               offset |-> NoOff, name |-> "none",
                               code |-> mir.opcode])]

\* The switch of convertMIRNode.
convertOpcode(c, m, bb, mir, rlSrc, rlDest) ==
  LET opcode == mir.opcode
      vA == mir.vA
      vB == mir.vB
      vC == mir.vC
      optFlags == mir.optFlags
  IN
  CASE opcode = "NOP" -> c
    [] opcode \in {"MOVE", "MOVE_OBJECT", "MOVE_WIDE"} ->
         DefineLast(emitCopy(c, <<getLLVMValue(c, rlSrc[1].origSReg)>>,
                             rlDest),
                    rlDest.origSReg)
    [] opcode \in {"CONST", "CONST_4"} ->
         DefineLast(emitConst(c, <<CInt(vB)>>, rlDest), rlDest.origSReg)
    [] opcode = "CONST_WIDE" ->
         DefineLast(emitConst(c, <<CLong(vB)>>, rlDest), rlDest.origSReg)
    [] opcode = "SPUT_OBJECT" -> convertSget(c, vB, "HLSputObject", rlSrc[1])
    [] opcode = "SPUT" ->
         convertSget(c, vB, IF rlSrc[1].fp THEN "HLSputFloat" ELSE "HLSput",
                     rlSrc[1])
    [] opcode = "SPUT_WIDE" ->
         convertSget(c, vB,
                     IF rlSrc[1].fp THEN "HLSputDouble" ELSE "HLSputWide",
                     rlSrc[1])
    [] opcode = "SGET_OBJECT" -> convertSget(c, vB, "HLSgetObject", rlDest)
    [] opcode = "SGET" ->
         convertSget(c, vB, IF rlDest.fp THEN "HLSgetFloat" ELSE "HLSget",
                     rlDest)
    [] opcode = "SGET_WIDE" ->
         convertSget(c, vB,
                     IF rlDest.fp THEN "HLSgetDouble" ELSE "HLSgetWide",
                     rlDest)
    [] opcode \in {"RETURN", "RETURN_WIDE", "RETURN_OBJECT"} ->
         convertReturn(c, m, bb, <<getLLVMValue(c, rlSrc[1].origSReg)>>)
    [] opcode = "RETURN_VOID" -> convertReturn(c, m, bb, <<>>)
    [] opcode \in {"IF_EQ", "IF_NE", "IF_LT", "IF_GE", "IF_GT", "IF_LE"} ->
         convertCompareAndBranch(c, m, bb, mir, CondOf(opcode),
                                 rlSrc[1], rlSrc[2])
    [] opcode \in {"IF_EQZ", "IF_NEZ", "IF_LTZ", "IF_GEZ", "IF_GTZ",
                   "IF_LEZ"} ->
         convertCompareZeroAndBranch(c, m, bb, mir, CondOf(opcode), rlSrc[1])
    [] opcode = "GOTO" -> convertGoto(c, m, bb)
    [] opcode \in {"ADD_INT", "ADD_LONG", "SUB_INT", "SUB_LONG", "MUL_INT",
                   "MUL_LONG", "DIV_INT", "DIV_LONG", "REM_INT", "REM_LONG",
                   "AND_INT", "AND_LONG", "OR_INT", "OR_LONG", "XOR_INT",
                   "XOR_LONG"} ->
         convertArithOp(c, OpKindOf(opcode), rlDest, rlSrc[1], rlSrc[2])
    [] opcode \in {"SHL_INT", "SHL_LONG", "SHR_INT", "SHR_LONG", "USHR_INT",
                   "USHR_LONG"} ->
         convertShift(c, OpKindOf(opcode), rlDest, rlSrc[1], rlSrc[2])
    [] opcode \in {"ADD_INT_LIT8", "ADD_INT_LIT16", "RSUB_INT",
                   "RSUB_INT_LIT8", "MUL_INT_LIT8", "MUL_INT_LIT16",
                   "DIV_INT_LIT8", "DIV_INT_LIT16", "REM_INT_LIT8",
                   "REM_INT_LIT16", "AND_INT_LIT8", "AND_INT_LIT16",
                   "OR_INT_LIT8", "OR_INT_LIT16", "XOR_INT_LIT8",
                   "XOR_INT_LIT16"} ->
         convertArithOpLit(c, OpKindOf(opcode), rlDest, rlSrc[1], vC)
    [] opcode \in {"SHL_INT_LIT8", "SHR_INT_LIT8", "USHR_INT_LIT8"} ->
         convertArithOpLit(c, OpKindOf(opcode), rlDest, rlSrc[1], vC % 32)
    [] opcode \in {"ADD_FLOAT", "ADD_DOUBLE", "SUB_FLOAT", "SUB_DOUBLE",
                   "MUL_FLOAT", "MUL_DOUBLE", "DIV_FLOAT", "DIV_DOUBLE",
                   "REM_FLOAT", "REM_DOUBLE"} ->
         convertFPArithOp(c, OpKindOf(opcode), rlDest, rlSrc[1], rlSrc[2])
    [] opcode \in {"INVOKE_STATIC", "INVOKE_DIRECT", "INVOKE_VIRTUAL",
                   "INVOKE_SUPER", "INVOKE_INTERFACE"} ->
         convertInvoke(c, m, mir, InvokeTypeOf(opcode), FALSE, FALSE)
    [] opcode = "FILLED_NEW_ARRAY" ->
         convertInvoke(c, m, mir, "kInterface", FALSE, TRUE)
    [] opcode = "CONST_STRING" ->
         convertConstObject(c, vB, "ConstString", rlDest)
    [] opcode = "CONST_CLASS" ->
         convertConstObject(c, vB, "ConstClass", rlDest)
    [] opcode = "CHECK_CAST" -> convertCheckCast(c, vB, rlSrc[1])
    [] opcode = "NEW_INSTANCE" -> convertNewInstance(c, vB, rlDest)
    [] opcode = "MOVE_EXCEPTION" -> convertMoveException(c, rlDest)
    [] opcode = "THROW" -> convertThrow(c, rlSrc[1])
    [] opcode = "THROW_VERIFICATION_ERROR" ->
         convertThrowVerificationError(c, vA, vB)
    [] opcode = "MOVE_RESULT" -> Fatal(c, "Unexpected MOVE_RESULT")
    [] opcode = "MONITOR_ENTER" ->
         convertMonitorEnterExit(c, optFlags, "MonitorEnter", rlSrc[1])
    [] opcode = "MONITOR_EXIT" ->
         convertMonitorEnterExit(c, optFlags, "MonitorExit", rlSrc[1])
    [] opcode = "ARRAY_LENGTH" -> convertArrayLength(c, optFlags, rlSrc[1])
    [] opcode = "NEW_ARRAY" -> convertNewArray(c, vC, rlDest, rlSrc[1])
    [] opcode = "INSTANCE_OF" -> convertInstanceOf(c, vC, rlDest, rlSrc[1])
    [] opcode = "AGET" ->
         convertAget(c, optFlags,
                     IF rlDest.fp THEN "HLArrayGetFloat" ELSE "HLArrayGet",
                     rlDest, rlSrc[1], rlSrc[2])
    [] opcode = "AGET_OBJECT" ->
         convertAget(c, optFlags, "HLArrayGetObject", rlDest,
                     rlSrc[1], rlSrc[2])
    [] opcode = "APUT" ->
         convertAput(c, optFlags,
                     IF rlSrc[1].fp THEN "HLArrayPutFloat" ELSE "HLArrayPut",
                     rlSrc[1], rlSrc[2], rlSrc[3])
    [] opcode = "IGET" ->
         convertIget(c, optFlags,
                     IF rlDest.fp THEN "HLIGetFloat" ELSE "HLIGet",
                     rlSrc[1], rlSrc[2], vC)
    [] opcode = "IGET_OBJECT" ->
         convertIget(c, optFlags, "HLIGetObject", rlSrc[1], rlSrc[2], vC)
    [] opcode = "IGET_WIDE" ->
         convertIget(c, optFlags,
                     IF rlDest.fp THEN "HLIGetDouble" ELSE "HLIGetWide",
                     rlSrc[1], rlSrc[2], vC)
    [] opcode = "IPUT" ->
         convertIput(c, optFlags,
                     IF rlDest.fp THEN "HLIPutFloat" ELSE "HLIPut",
                     rlSrc[1], rlSrc[2], vC)
    [] opcode = "IPUT_OBJECT" ->
         convertIput(c, optFlags, "HLIPutObject", rlSrc[1], rlSrc[2], vC)
    [] opcode = "FILL_ARRAY_DATA" -> convertFillArrayData(c, vB, rlSrc[1])
    [] opcode = "INT_TO_LONG" -> convertIntToLong(c, rlDest, rlSrc[1])
    [] opcode = "INT_TO_CHAR" ->
         convertIntNarrowing(c, rlDest, rlSrc[1], "IntToChar")
    [] opcode = "INT_TO_BYTE" ->
         convertIntNarrowing(c, rlDest, rlSrc[1], "IntToByte")
    [] opcode = "INT_TO_SHORT" ->
         convertIntNarrowing(c, rlDest, rlSrc[1], "IntToShort")
    [] OTHER -> unsupportedOpcode(c, mir)

\* convertMIRNode: the operand locations, the switch, and for a definition
\* of a non-wide reference the shadow frame store.  res stays false: every
\* case that returns leaves it so.
convertMIRNode(c, m, bb, mir) ==
  With2(PrepSrc(m, mir), PrepDest(m, mir), LAMBDA rlSrc, rlDest :
    With(convertOpcode([c EXCEPT !.res = FALSE], m, bb, mir, rlSrc, rlDest),
         LAMBDA c1 :
      IF c1.status = "fatal" THEN c1
      ELSE IF "DF_DA" \in mir.attrs /\ "DF_A_WIDE" \notin mir.attrs
              /\ rlDest.ref
        THEN setShadowFrameEntry(c1, m, getLLVMValue(c1, rlDest.origSReg))
        ELSE c1))

convertExtendedMIR(c, m, bb, mir) ==
  IF mir.opcode = "kMirOpPhi"
    THEN LET rlDest == m.regLocation[mir.defs[1] + 1]
             \* a 64-bit phi steps i before it reads incoming[i]
             idx == IF rlDest.wide
                      THEN {i \in 0..(Len(mir.uses) - 1) : i % 2 = 0}
                      ELSE 0..(Len(mir.uses) - 1)
             ord == [k \in 1..Cardinality(idx) |->
                       IF rlDest.wide THEN 2 * (k - 1) ELSE k - 1]
             inc(i) == IF rlDest.wide THEN i + 1 ELSE i
             c1 == Emit(c, "PHI", "none",
                        [k \in 1..Len(ord) |->
                           getLLVMValue(c, GetSrc(m, mir, ord[k]).origSReg)],
                        llvmTypeFromLocRec(rlDest),
                        [k \in 1..Len(ord) |->
                           IF inc(ord[k]) < Len(mir.incoming)
                             THEN getLLVMBlock(c, mir.incoming[inc(ord[k]) + 1] + 1)
                             ELSE <<"garbage", 0, 0>>])
         IN DefineLast(c1, rlDest.origSReg)
    ELSE c

setDexOffset(c, offset) ==
  [c EXCEPT !.currentDalvikOffset = offset, !.off = offset]

setMethodInfo_NoRestore(c) ==
  CreateCall([c EXCEPT !.off = NoOff], "MethodInfo", <<>>)

setMethodInfo(c) ==
  With(c, LAMBDA cc :
    setDexOffset(CreateCall([cc EXCEPT !.off = NoOff], "MethodInfo", <<>>),
                 cc.currentDalvikOffset))

getFunctionType(m) ==
  [ret |-> GetJType(m.retClass),
   args |-> <<"JMethod">>
            \o (IF ~m.isStatic THEN <<"JObject">> ELSE <<>>)
            \o [k \in 1..Len(IF m.isStatic THEN m.ins ELSE Tail(m.ins)) |->
                  GetJType((IF m.isStatic THEN m.ins ELSE Tail(m.ins))[k])]]

\* The slot createFunction names the k-th argument after (k >= 1).
RECURSIVE ArgStartSReg(_, _)
ArgStartSReg(m, k) ==
  IF k = 1 THEN m.numRegs
  ELSE With(ArgStartSReg(m, k - 1), LAMBDA prev :
         prev + (IF prev < Len(m.regLocation)
                    /\ m.regLocation[prev + 1].wide THEN 2 ELSE 1))

createFunction(c, m) ==
  LET ft == getFunctionType(m) IN
  [c EXCEPT !.retTy = ft.ret,
            !.args = [k \in 1..Len(ft.args) |->
                        [name |-> IF k = 1 THEN <<"method", 0, 0>>
                                  ELSE <<"v", ArgStartSReg(m, k - 1), 0>>,
                         ty |-> ft.args[k]]]]

NewBlock(name) == [name |-> name, insts |-> <<>>]

createLLVMBasicBlock(c, m, bb) ==
  LET b == m.blocks[bb + 1] IN
  IF b.blockType = "kExitBlock"
    THEN [c EXCEPT !.idToBlockMap[bb + 1] = NoBlock]
    ELSE IF b.blockType = "kEntryBlock"
      THEN [c EXCEPT !.blocks = @ \o <<NewBlock(EntryName),
                                       NewBlock(PlaceholderName)>>,
                     !.entryBB = EntryName,
                     !.placeholderBB = PlaceholderName,
                     !.idToBlockMap[bb + 1] = EntryName]
      ELSE [c EXCEPT !.blocks = Append(@, NewBlock(LabelName(b.startOffset,
                                                            b.id))),
                     !.idToBlockMap[bb + 1] = LabelName(b.startOffset, b.id)]

\* The placeholder of a slot: an alloca of the slot's type and a load of
\* it, named as the SSA name, both in the insert (placeholder) block.
CreatePlaceholder(c, m, i) ==
  With2(c, llvmTypeFromLocRec(m.regLocation[i + 1]), LAMBDA cc, ty :
    [cc EXCEPT !.blocks[BlockIdx(cc, cc.ip)].insts =
       @ \o <<MkInst(<<"alloca", i>>, "Alloca", "none", <<>>, ty, <<>>,
                     cc.off),
              [MkInst(<<"ph", i>>, "Load", "none", <<<<"alloca", i>>>>, ty,
                      <<>>, cc.off) EXCEPT !.name = llvmSSAName(m, i)]>>])

\* The loop of oatMethodMIR2Bitcode that fills llvmValues; argIter counts
\* the arguments taken (the method pointer is argument 0) and pastEnd is
\* what reading the argument iterator at or beyond its end gives.
RECURSIVE PreDeclareLoop(_, _, _, _, _)
PreDeclareLoop(c0, m, i, argIter, pastEnd) ==
  With(c0, LAMBDA c :
    IF i >= m.numSSARegs THEN c
    ELSE IF i < m.numRegs
      THEN PreDeclareLoop([c EXCEPT !.llvmValues = Append(@, Null)],
                          m, i + 1, argIter, pastEnd)
    ELSE IF i >= m.numRegs + m.numIns
      THEN IF m.regLocation[i + 1].wide
             THEN PreDeclareLoop(
                    [CreatePlaceholder(c, m, i)
                       EXCEPT !.llvmValues = @ \o <<<<"ph", i>>, Null>>],
                    m, i + 2, argIter, pastEnd)
             ELSE PreDeclareLoop(
                    [CreatePlaceholder(c, m, i)
                       EXCEPT !.llvmValues = Append(@, <<"ph", i>>)],
                    m, i + 1, argIter, pastEnd)
    ELSE PreDeclareLoop(
           [c EXCEPT !.llvmValues =
              Append(@, IF argIter < Len(c.args) THEN <<"arg", argIter>>
                        ELSE pastEnd)],
           m, i + 1, argIter + 1, pastEnd))

\* The registers some SSA slot of which holds a reference.
canBeRef(m) ==
  {SRegToVReg(m, i) : i \in {j \in 0..(m.numSSARegs - 1) :
                               m.regLocation[j + 1].ref}}

\* The sequence of the elements of a set of numbers in ascending order.
RECURSIVE Ascending(_)
Ascending(S) ==
  IF S = {} THEN <<>>
  ELSE LET lo == CHOOSE x \in S : \A y \in S : x <= y
       IN <<lo>> \o Ascending(S \ {lo})

\* A plausible slip: the map filled from the highest register down.
RECURSIVE BuildShadowMap_Descending(_)
BuildShadowMap_Descending(S) ==
  IF S = {} THEN <<>>
  ELSE LET hi == CHOOSE x \in S : \A y \in S : x >= y
       IN <<hi>> \o BuildShadowMap_Descending(S \ {hi})

\* shadowMap[j++] = i for the registers i = 0 .. numDalvikRegisters-1 that
\* can hold a reference.
BuildShadowMap(S) == Ascending(S)

\* A plausible slip: the frame is allocated whatever the count.
entryBlockSetup_Always(c, m) ==
  With2(setMethodInfo(c), canBeRef(m), LAMBDA c1, refs :
    [CreateCall([c1 EXCEPT !.numShadowFrameEntries = Cardinality(refs),
                           !.shadowMap = BuildShadowMap(refs)],
                "AllocaShadowFrame", <<CInt(Cardinality(refs))>>)
       EXCEPT !.allocaShadowFrame = TRUE])

\* The entry block's part of methodBlockBitcodeConversion.
entryBlockSetup(c, m) ==
  With2(setMethodInfo(c), canBeRef(m), LAMBDA c1, refs :
    IF Cardinality(refs) > 0
      THEN [CreateCall([c1 EXCEPT !.numShadowFrameEntries = Cardinality(refs),
                                  !.shadowMap = BuildShadowMap(refs)],
                       "AllocaShadowFrame", <<CInt(Cardinality(refs))>>)
              EXCEPT !.allocaShadowFrame = TRUE]
      ELSE [c1 EXCEPT !.numShadowFrameEntries = Cardinality(refs)])

\* A plausible slip: the block is left in the function.
eraseFromParent_Keeps(c, bname) == c

\* BasicBlock::eraseFromParent
eraseFromParent(c, bname) ==
  [c EXCEPT !.blocks = SelectSeq(@, LAMBDA b : b.name # bname)]

\* llvm::verifyFunction, as far as the model sees the function: every
\* block ends in its only terminator, and no operand is a value whose
\* instruction is gone or never was.
IsTerminator(inst) == inst.op \in {"Br", "CondBr", "Ret", "Unreachable"}

verifyFunction(c) ==
  /\ \A i \in 1..Len(c.blocks) :
       LET insts == c.blocks[i].insts IN
       /\ insts # <<>>
       /\ \A j \in 1..Len(insts) : IsTerminator(insts[j]) <=> j = Len(insts)
  /\ \A x \in AllInsts(c) :
       /\ \A k \in 1..Len(x.args) :
            /\ x.args[k] # Garbage
            /\ x.args[k] # Null
            /\ x.args[k][1] \in {"inst", "ph", "alloca"} =>
                 \E y \in AllInsts(c) : y.val = x.args[k]
       /\ \A k \in 1..Len(x.succ) : HasBlock(c, x.succ[k])

(***************************************************************************)
(* The methods the forward pass is run on.                                 *)
(***************************************************************************)
NumLocals == 2

MaxBody == 1

Lit == 1

ArgShapes ==
  {[ins |-> <<"I", "I">>, isStatic |-> TRUE],
   [ins |-> <<"L", "I">>, isStatic |-> FALSE],
   [ins |-> <<"J", "I">>, isStatic |-> TRUE],
   [ins |-> <<"F", "D", "I">>, isStatic |-> TRUE]}

Templates == {"straight", "exc", "loop_do", "loop_doz", "fwd", "loop_while"}

ForwardOps ==
  {"NOP", "MOVE", "MOVE_OBJECT", "MOVE_WIDE", "CONST", "CONST_WIDE", "SGET",
   "SGET_OBJECT", "SGET_WIDE", "SPUT", "SPUT_OBJECT", "ADD_INT", "SUB_INT",
   "DIV_INT", "SUB_LONG", "SHL_LONG", "SHL_INT", "ADD_INT_LIT8", "RSUB_INT",
   "ADD_FLOAT", "SUB_DOUBLE", "NEW_INSTANCE", "NEW_ARRAY", "CONST_STRING",
   "CHECK_CAST", "INSTANCE_OF", "ARRAY_LENGTH", "AGET", "APUT", "IGET",
   "IGET_OBJECT", "IPUT", "MONITOR_ENTER", "INT_TO_LONG", "INT_TO_BYTE",
   "NEG_INT", "INT_TO_FLOAT", "MOVE_RESULT", "MOVE_EXCEPTION",
   "FILL_ARRAY_DATA"}

\* The items of the opcodes: a reference may be written to any local, the
\* rest is written to v0; an invoke's result is unused or of any class.
ItemsOf(ops) ==
  {Item(op, r, Lit, "-", 0) :
     op \in {o \in ops : OpInfo(o).d = "L"}, r \in 0..(NumLocals - 1)}
  \cup {Item(op, 0, Lit, "-", 0) : op \in {o \in ops : OpInfo(o).d # "L"}}

InvokeItems ==
  {Item("INVOKE_STATIC", 0, Lit, res, 0) : res \in {"-", "I", "J", "L"}}
  \cup {Item("INVOKE_VIRTUAL", 0, Lit, "-", 0),
        Item("FILLED_NEW_ARRAY", 1, Lit, "L", 0)}

\* The sequences of at most n elements of S.
RECURSIVE SeqsUpTo(_, _)
SeqsUpTo(S, n) ==
  IF n = 0 THEN {<<>>}
  ELSE LET shorter == SeqsUpTo(S, n - 1)
       IN shorter \cup {Append(q, x) : q \in shorter, x \in S}

MethodsOf(templates, shapes, items, n) ==
  {mm \in {BuildMethod(t, NumLocals, sh.ins, sh.isStatic, body) :
             t \in templates, sh \in shapes, body \in SeqsUpTo(items, n)} :
     mm.ok}

Methods ==
  MethodsOf(Templates, ArgShapes, ItemsOf(ForwardOps) \cup InvokeItems,
            MaxBody)

(***************************************************************************)
(* oatMethodMIR2Bitcode, step by step.                                     *)
(***************************************************************************)
Init ==
  /\ pc = "start"
  /\ method \in Methods
  /\ cUnit = NewUnit(method)
  /\ bbIdx = 0
  /\ mirIdx = 0
  /\ LocIdle

\* The block the dispatcher is at.
CurBB == method.dfsOrder[bbIdx]

\* initIR, the value list, createFunction.
CreateFunction ==
  /\ pc = "start"
  /\ cUnit' = createFunction(cUnit, method)
  /\ pc' = "blocks"
  /\ bbIdx' = 1
  /\ UNCHANGED <<method, mirIdx, locIn, locTy, locOut>>

\* The dispatcher's call of createLLVMBasicBlock on the next block.
CreateLLVMBasicBlock ==
  /\ pc = "blocks"
  /\ cUnit' = createLLVMBasicBlock(cUnit, method, CurBB)
  /\ bbIdx' = IF bbIdx = Len(method.dfsOrder) THEN 0 ELSE bbIdx + 1
  /\ pc' = IF bbIdx = Len(method.dfsOrder) THEN "predeclare" ELSE "blocks"
  /\ UNCHANGED <<method, mirIdx, locIn, locTy, locOut>>

\* The predeclaration loop and the placeholder block's branch to itself.
PreDeclare ==
  /\ pc = "predeclare"
  /\ \E pastEnd \in {Garbage, Null} :
       \E c1 \in {PreDeclareLoop([cUnit EXCEPT !.ip = cUnit.placeholderBB],
                                 method, 0, 1, pastEnd)} :
         cUnit' = [c1 EXCEPT !.blocks[BlockIdx(c1, c1.placeholderBB)].insts =
                     Append(@, MkInst(<<"br", 0>>, "Br", "none", <<>>, "Void",
                                      <<c1.placeholderBB>>, c1.off))]
  /\ pc' = "block_start"
  /\ bbIdx' = 1
  /\ UNCHANGED <<method, mirIdx, locIn, locTy, locOut>>

\* Where the dispatcher goes after the block it is at.
NextBlockPc == IF bbIdx = Len(method.dfsOrder) THEN "finish" ELSE "block_start"

NextBlockIdx == IF bbIdx = Len(method.dfsOrder) THEN 0 ELSE bbIdx + 1

\* methodBlockBitcodeConversion up to the MIR loop.
BlockStart ==
  /\ pc = "block_start"
  /\ LET b == method.blocks[CurBB + 1]
         c1 == setDexOffset([cUnit EXCEPT !.ip = getLLVMBlock(cUnit, CurBB + 1)],
                            b.startOffset)
     IN CASE b.blockType = "kEntryBlock" ->
               /\ cUnit' = entryBlockSetup(c1, method)
               /\ pc' = IF b.mirs = <<>> THEN "block_end" ELSE "block_mir"
               /\ bbIdx' = bbIdx
               /\ mirIdx' = IF b.mirs = <<>> THEN 0 ELSE 1
          [] b.blockType = "kExitBlock" ->
               /\ cUnit' = c1
               /\ pc' = NextBlockPc
               /\ bbIdx' = NextBlockIdx
               /\ mirIdx' = 0
          [] b.blockType = "kExceptionHandling" ->
               /\ cUnit' = eraseFromParent(c1, c1.ip)
               /\ pc' = NextBlockPc
               /\ bbIdx' = NextBlockIdx
               /\ mirIdx' = 0
          [] OTHER ->
               /\ cUnit' = c1
               /\ pc' = IF b.mirs = <<>> THEN "block_end" ELSE "block_mir"
               /\ bbIdx' = bbIdx
               /\ mirIdx' = IF b.mirs = <<>> THEN 0 ELSE 1
  /\ UNCHANGED <<method, locIn, locTy, locOut>>

\* One turn of the MIR loop of methodBlockBitcodeConversion.
convertMIR(c, m, bb, mir0) ==
  With2(mir0, setDexOffset(c, mir0.offset), LAMBDA mir, c0 :
    IF mir.opcode = "kMirOpPhi" THEN convertExtendedMIR(c0, m, bb, mir)
    ELSE With(convertMIRNode(c0, m, bb, mir), LAMBDA c1 :
           IF c1.status # "fatal" /\ c1.res
             THEN [c1 EXCEPT !.log =
                     Append(@, [level |-> "WARNING", what |-> "not handled",
                                offset |-> mir.offset, name |-> mir.opcode,
                                code |-> mir.opcode])]
             ELSE c1))

ConvertMIR ==
  /\ pc = "block_mir"
  /\ \E c1 \in {convertMIR(cUnit, method, CurBB,
                             method.blocks[CurBB + 1].mirs[mirIdx])} :
       /\ cUnit' = c1
       /\ pc' = IF c1.status = "fatal" THEN "aborted"
                ELSE IF mirIdx = Len(method.blocks[CurBB + 1].mirs)
                  THEN "block_end"
                ELSE "block_mir"
       /\ mirIdx' = IF c1.status # "fatal"
                       /\ mirIdx < Len(method.blocks[CurBB + 1].mirs)
                      THEN mirIdx + 1 ELSE mirIdx
  /\ UNCHANGED <<method, bbIdx, locIn, locTy, locOut>>

\* The end of methodBlockBitcodeConversion: the fall-through branch.
BlockEnd ==
  /\ pc = "block_end"
  /\ cUnit' = IF cUnit.fallThrough[CurBB + 1] # NoId
                 /\ ~cUnit.hasReturn[CurBB + 1]
                THEN Emit(cUnit, "Br", "none", <<>>, "Void",
                          <<getLLVMBlock(cUnit,
                                         cUnit.fallThrough[CurBB + 1] + 1)>>)
                ELSE cUnit
  /\ pc' = NextBlockPc
  /\ bbIdx' = NextBlockIdx
  /\ mirIdx' = 0
  /\ UNCHANGED <<method, locIn, locTy, locOut>>

\* The placeholder block is erased and the function verified; what the
\* verifier says is printed and otherwise ignored.
Finish ==
  /\ pc = "finish"
  /\ \E c1 \in {eraseFromParent(cUnit, cUnit.placeholderBB)} :
       cUnit' = [c1 EXCEPT !.verified =
                   IF verifyFunction(c1) THEN "ok" ELSE "broken"]
  /\ pc' = "done"
  /\ UNCHANGED <<method, bbIdx, mirIdx, locIn, locTy, locOut>>

Next ==
  \/ CreateFunction
  \/ CreateLLVMBasicBlock
  \/ PreDeclare
  \/ BlockStart
  \/ ConvertMIR
  \/ BlockEnd
  \/ Finish

Spec == Init /\ [][Next]_vars

(***************************************************************************)
(* The reverse pass, bitcode to LIR.  cUnit.locMap is the Value to         *)
(* RegLocation map in insertion order; cUnit.lir is the code generated, an *)
(* entry for each call into the code generator: the generator's name, the  *)
(* Dalvik opcode handed to it, its locations and its literal.              *)
(***************************************************************************)
\* createLocFromValue on the unit: the location of the value enters locMap.
putLocFromValue(c, v) ==
  With2(c, v, LAMBDA cc, vv :
    LocMapPut(cc, vv, createLocFromValue(NameOfValue(cc, vv),
                                         TypeOfValue(cc, vv),
                                         Len(cc.locMap))))

\* A pointer that is no Value: null, past the end of the argument list, or
\* to an instruction that was erased.
IsWildValue(c, v) ==
  \/ v[1] \in {"null", "garbage"}
  \/ v[1] \in {"inst", "ph", "alloca"} /\ ~\E x \in AllInsts(c) : x.val = v

\* getLoc: the location of a value, entered in locMap when it is missing.
\* Reading a pointer that is no Value, or regLocation (null in this pass)
\* for a named value missing from locMap, gives wild, any location.
getLoc(c, val, wild) ==
  With3(c, val, wild, LAMBDA cc, vv, ww :
    IF IsWildValue(cc, vv) THEN [c |-> cc, loc |-> ww]
    ELSE IF LocMapHas(cc, vv) THEN [c |-> cc, loc |-> LocMapGet(cc, vv)]
    ELSE IF NameOfValue(cc, vv) = NoName
      THEN With(TempLoc(TypeOfValue(cc, vv) \in {"Int64", "Double"}),
                LAMBDA res : [c |-> LocMapPut(cc, vv, res), loc |-> res])
      ELSE [c |-> LocMapPut(cc, vv, ww), loc |-> ww])

\* getDalvikOpcode: the opcode as <<stem, form>>, <<"ADD", "INT_LIT16">>
\* for ADD_INT_LIT16, and "LOG_FATAL" for the default cases.
getDalvikOpcode(op, isConst, isWide) ==
  IF op \notin {"kOpAdd", "kOpSub", "kOpMul", "kOpDiv", "kOpRem", "kOpAnd",
                "kOpOr", "kOpXor", "kOpLsl", "kOpLsr", "kOpAsr"}
    THEN "LOG_FATAL"
  ELSE LET stem == CASE op = "kOpAdd" -> "ADD" [] op = "kOpSub" -> "SUB"
                     [] op = "kOpMul" -> "MUL" [] op = "kOpDiv" -> "DIV"
                     [] op = "kOpRem" -> "REM" [] op = "kOpAnd" -> "AND"
                     [] op = "kOpOr" -> "OR" [] op = "kOpXor" -> "XOR"
                     [] op = "kOpLsl" -> "SHL" [] op = "kOpLsr" -> "USHR"
                     [] op = "kOpAsr" -> "SHR"
       IN IF isWide THEN <<stem, "LONG">>
          ELSE IF isConst
            THEN (IF op = "kOpSub" THEN <<"RSUB", "INT_LIT8">>
                  ELSE IF op \in {"kOpLsl", "kOpLsr", "kOpAsr"}
                    THEN <<stem, "INT_LIT8">> ELSE <<stem, "INT_LIT16">>)
          ELSE <<stem, "INT">>

getDalvikFPOpcode(op, isConst, isWide) ==
  IF op \notin {"kOpAdd", "kOpSub", "kOpMul", "kOpDiv", "kOpRem"}
    THEN "LOG_FATAL"
  ELSE <<CASE op = "kOpAdd" -> "ADD" [] op = "kOpSub" -> "SUB"
           [] op = "kOpMul" -> "MUL" [] op = "kOpDiv" -> "DIV"
           [] op = "kOpRem" -> "REM",
         IF isWide THEN "DOUBLE" ELSE "FLOAT">>

\* A call into the code generator.
LIR(kind, opcode, rlDest, rlSrc1, rlSrc2, lit) ==
  [kind |-> kind, opcode |-> opcode, rlDest |-> rlDest, rlSrc1 |-> rlSrc1,
   rlSrc2 |-> rlSrc2, lit |-> lit]

\* The generator is called, unless choosing the opcode has aborted.
AppendLIR(c, kind, opcode, rlDest, rlSrc1, rlSrc2, lit) ==
  With2(c, LIR(kind, opcode, rlDest, rlSrc1, rlSrc2, lit), LAMBDA cc, l :
    IF l.opcode = "LOG_FATAL" THEN Fatal(cc, "Unexpected OpKind")
    ELSE [cc EXCEPT !.lir = Append(@, l)])

\* dyn_cast<llvm::ConstantInt>
IsConstantInt(v) == v[1] \in {"cint", "clong"}

cvtBinFPOp(c, op, inst, wild) ==
  With(getLoc(c, inst.val, wild), LAMBDA d :
    With(getLoc(d.c, inst.args[1], wild), LAMBDA s1 :
      With(getLoc(s1.c, inst.args[2], wild), LAMBDA s2 :
        AppendLIR(s2.c,
                  IF d.loc.wide THEN "genArithOpDouble" ELSE "genArithOpFloat",
                  getDalvikFPOpcode(op, FALSE, d.loc.wide),
                  d.loc, s1.loc, s2.loc, 0))))

cvtIntNarrowing(c, inst, opcode, wild) ==
  With(getLoc(c, inst.val, wild), LAMBDA d :
    With(getLoc(d.c, inst.args[1], wild), LAMBDA s1 :
      AppendLIR(s1.c, "genIntNarrowing", opcode, d.loc, s1.loc, badLoc, 0)))

\* cvtIntExt: the low word copied or loaded, the high word computed, the
\* pair stored.
cvtIntExt(c, inst, isSigned, wild) ==
  With(getLoc(c, inst.val, wild), LAMBDA d :
    With(getLoc(d.c, inst.args[1], wild), LAMBDA s1 :
      AppendLIR(s1.c, "cvtIntExt",
                IF isSigned THEN <<"SEXT", "LONG">> ELSE <<"ZEXT", "LONG">>,
                d.loc, s1.loc, badLoc, 0)))

cvtBinOp(c, op, inst, wild) ==
  With(getLoc(c, inst.val, wild), LAMBDA d :
    IF op = "kOpSub" /\ IsConstantInt(inst.args[1])
      THEN With(getLoc(d.c, inst.args[2], wild), LAMBDA s1 :
             AppendLIR(s1.c, "genArithOpIntLit", <<"RSUB", "INT">>,
                       d.loc, s1.loc, badLoc, inst.args[1][2]))
      ELSE With(getLoc(d.c, inst.args[1], wild), LAMBDA s1 :
             IF IsConstantInt(inst.args[2])
               THEN AppendLIR(s1.c, "genArithOpIntLit",
                              getDalvikOpcode(op, TRUE, FALSE),
                              d.loc, s1.loc, badLoc, inst.args[2][2])
               ELSE With(getLoc(s1.c, inst.args[2], wild), LAMBDA s2 :
                      AppendLIR(s2.c,
                                IF d.loc.wide THEN "genArithOpLong"
                                ELSE "genArithOpInt",
                                getDalvikOpcode(op, FALSE, d.loc.wide),
                                d.loc, s1.loc, s2.loc, 0))))

\* The instruction that defines a value, or a wild one.
InstOfValue(c, v) ==
  IF \E x \in AllInsts(c) : x.val = v
    THEN CHOOSE x \in AllInsts(c) : x.val = v
    ELSE MkInst(v, "none", "none", <<Garbage>>, "Unknown", <<>>, NoOff)

\* dyn_cast<llvm::Instruction>: arguments and constants are none.
IsInstruction(v) == v[1] \in {"inst", "ph", "alloca"}

\* cvtShiftOp: a 64-bit shift takes its count from the first operand of
\* the instruction that gives the count, whatever that instruction is.
\* What the count's location and the operand's look like is asserted in a
\* debug build only.  A count that is no instruction leaves a null
\* pointer to read the operand through: the read faults, or goes wild.
cvtShiftOp(c, op, inst, wild, oob) ==
  IF inst.ty = "Int64"
    THEN With(getLoc(c, inst.val, wild), LAMBDA d :
      With(getLoc(d.c, inst.args[1], wild), LAMBDA s1 :
        With(getLoc(s1.c, inst.args[2], wild), LAMBDA sh :
          IF ~IsInstruction(inst.args[2]) /\ oob = "assert"
            THEN Fatal(sh.c, "null extInst")
          ELSE
          With(getLoc(sh.c, InstOfValue(sh.c, inst.args[2]).args[1], wild),
               LAMBDA pre :
            AppendLIR(pre.c, "genShiftOpLong",
                      IF op = "kOpLsl" THEN <<"SHL", "LONG">>
                      ELSE IF op = "kOpAsr" THEN <<"SHR", "LONG">>
                      ELSE <<"USHR", "LONG">>,
                      d.loc, s1.loc, pre.loc, 0)))))
    ELSE cvtBinOp(c, op, inst, wild)

cvtBr(c, inst) ==
  AppendLIR(c, "opUnconditionalBranch", inst.succ[1], badLoc, badLoc,
            badLoc, 0)

cvtRet(c, inst, wild) ==
  IF inst.args # <<>>
    THEN With(getLoc(c, inst.args[1], wild), LAMBDA s1 :
           AppendLIR(AppendLIR(s1.c,
                               IF s1.loc.wide THEN "storeValueWide"
                               ELSE "storeValue",
                               "none", badLoc, s1.loc, badLoc, 0),
                     "genExitSequence", "none", badLoc, badLoc, badLoc, 0))
    ELSE AppendLIR(c, "genExitSequence", "none", badLoc, badLoc, badLoc, 0)

\* The handler the switch on the intrinsic's id calls.
IntrinsicHandler(id) ==
  CASE id \in {"AllocaShadowFrame", "SetShadowFrameEntry", "PopShadowFrame",
               "MethodInfo"} -> "ignore"
    [] id \in {"CopyInt", "CopyObj", "CopyFloat", "CopyLong", "CopyDouble"} ->
         "cvtCopy"
    [] id \in {"ConstInt", "ConstObj", "ConstLong", "ConstFloat",
               "ConstDouble"} -> "cvtConst"
    [] id \in {"DivInt", "DivLong"} -> "kOpDiv"
    [] id \in {"RemInt", "RemLong"} -> "kOpRem"
    [] id = "CheckSuspend" -> "genSuspendTest"
    [] id \in {"HLInvokeObj", "HLInvokeFloat", "HLInvokeDouble",
               "HLInvokeLong", "HLInvokeInt", "HLInvokeVoid",
               "FilledNewArray"} -> "cvtInvoke"
    [] id = "FillArrayData" -> "cvtFillArrayData"
    [] id \in {"ConstString", "ConstClass"} -> "cvtConstObject"
    [] id = "CheckCast" -> "cvtCheckCast"
    [] id = "NewInstance" -> "cvtNewInstance"
    [] id \in {"HLSgetObject", "HLSget", "HLSgetFloat", "HLSgetBoolean",
               "HLSgetByte", "HLSgetChar", "HLSgetShort", "HLSgetWide",
               "HLSgetDouble"} -> "cvtSget"
    [] id = "GetException" -> "cvtMoveException"
    [] id = "Throw" -> "cvtThrow"
    [] id = "ThrowVerificationError" -> "cvtThrowVerificationError"
    [] id \in {"MonitorEnter", "MonitorExit"} -> "cvtMonitorEnterExit"
    [] id = "ArrayLength" -> "cvtMonitorArrayLength"
    [] id = "NewArray" -> "cvtNewArray"
    [] id = "InstanceOf" -> "cvtInstanceOf"
    [] id \in {"HLArrayGet", "HLArrayGetObject", "HLArrayGetFloat",
               "HLArrayGetWide", "HLArrayGetDouble", "HLArrayGetBoolean",
               "HLArrayGetByte", "HLArrayGetChar", "HLArrayGetShort"} ->
         "cvtAget"
    [] id \in {"HLArrayPut", "HLArrayPutObject", "HLArrayPutFloat",
               "HLArrayPutWide", "HLArrayPutDouble", "HLArrayPutBoolean",
               "HLArrayPutByte", "HLArrayPutChar", "HLArrayPutShort"} ->
         "cvtAput"
    [] id \in {"HLIGet", "HLIGetFloat", "HLIGetObject", "HLIGetWide",
               "HLIGetDouble", "HLIGetBoolean", "HLIGetByte", "HLIGetChar",
               "HLIGetShort"} -> "cvtIget"
    [] id \in {"HLIPut", "HLIPutFloat", "HLIPutObject", "HLIPutWide",
               "HLIPutDouble", "HLIPutBoolean", "HLIPutByte", "HLIPutChar",
               "HLIPutShort"} -> "cvtIput"
    [] id = "IntToChar" -> "INT_TO_CHAR"
    [] id = "IntToShort" -> "INT_TO_SHORT"
    [] id = "IntToByte" -> "INT_TO_BYTE"
    [] id = "UnknownId" -> "cvtCall"
    [] OTHER -> "LOG_FATAL"

\* The handler of a call reads n arguments: the count its DCHECK_EQ on
\* getNumArgOperands names; cvtInvoke reads the three leading words and
\* whatever follows them.
HandlerReads(h, n) ==
  CASE h = "cvtInvoke" -> n >= 3
    [] h \in {"cvtMoveException", "genSuspendTest"} -> n = 0
    [] h \in {"cvtCopy", "cvtConst", "cvtConstObject", "cvtNewInstance",
              "cvtThrow", "cvtSget", "INT_TO_CHAR", "INT_TO_SHORT",
              "INT_TO_BYTE"} -> n = 1
    [] h \in {"cvtFillArrayData", "cvtNewArray", "cvtInstanceOf",
              "cvtThrowVerificationError", "cvtMonitorEnterExit",
              "cvtMonitorArrayLength", "cvtSput", "cvtCheckCast", "kOpDiv",
              "kOpRem"} -> n = 2
    [] h \in {"cvtAget", "cvtIget"} -> n = 3
    [] h \in {"cvtAput", "cvtIput"} -> n = 4
    [] h = "ignore" -> TRUE
    [] OTHER -> FALSE

\* static_cast<InvokeType> of the call's first argument.
InvokeTypeFromCode(code) ==
  CASE code = 0 -> "kStatic" [] code = 1 -> "kDirect"
    [] code = 2 -> "kVirtual" [] code = 3 -> "kSuper"
    [] code = 4 -> "kInterface" [] OTHER -> "unknown"

\* The argument array of cvtInvoke: the location of each argument of the
\* call from the fourth on, and after a wide one a record not initialized
\* but for its origSReg and sRegLow, the wide one's plus one.
RECURSIVE InvokeLocs(_, _, _)
InvokeLocs(c, vals, wild) ==
  With(c, LAMBDA cc :
    IF vals = <<>> THEN [c |-> cc, args |-> <<>>]
    ELSE With(getLoc(cc, Head(vals), wild), LAMBDA a :
      With(InvokeLocs(a.c, Tail(vals), wild), LAMBDA rest :
        [c |-> rest.c,
         args |-> (IF a.loc.wide
                     THEN <<a.loc,
                            [wild EXCEPT !.origSReg = a.loc.origSReg + 1,
                                         !.sRegLow = a.loc.sRegLow + 1]>>
                     ELSE <<a.loc>>) \o rest.args])))

\* cvtInvoke: the CallInfo rebuilt from the call and handed to genInvoke
\* or genFilledNewArray.  The three leading arguments are read as
\* constants through pointers that are null when they are none.
cvtInvoke(c, inst, isVoid, isNewArray, wild, oob) ==
  With(IF isVoid
         THEN [c |-> c, loc |-> [badLoc EXCEPT !.location = "kLocInvalid"]]
         ELSE getLoc(c, inst.val, wild), LAMBDA res :
    IF \E i \in 1..3 : i > Len(inst.args) \/ ~IsConstantInt(inst.args[i])
      THEN (IF oob = "assert" THEN Fatal(res.c, "null ConstantInt")
            ELSE AppendLIR(res.c, "genInvoke", "garbage", badLoc, badLoc,
                           badLoc, 0))
    ELSE With(InvokeLocs(res.c, SubSeq(inst.args, 4, Len(inst.args)), wild),
              LAMBDA a :
      [a.c EXCEPT !.lir =
         Append(@, LIR(IF isNewArray THEN "genFilledNewArray"
                       ELSE "genInvoke",
                       [type |-> InvokeTypeFromCode(inst.args[1][2]),
                        index |-> inst.args[2][2],
                        optFlags |-> inst.args[3][2],
                        offset |-> a.c.currentDalvikOffset,
                        isRange |-> FALSE,
                        numArgWords |-> Len(a.args),
                        args |-> a.args,
                        result |-> res.loc],
                       badLoc, badLoc, badLoc, 0))]))

\* getCond: the condition code of a compare's predicate.
getCond(pred) ==
  IF pred \in {"kCondEq", "kCondNe", "kCondLt", "kCondGe", "kCondGt",
               "kCondLe"}
    THEN pred ELSE "LOG_FATAL"

\* A compare that is not converted with a branch.
cvtICmp(c) == Fatal(c, "UNIMPLEMENTED cvtICmp")

\* A call to a function that is no intrinsic.
cvtCall(c) == Fatal(c, "UNIMPLEMENTED cvtCall")

\* The label of a successor of a branch.  A branch has the successors it
\* was created with; asking for one it does not have trips the assertion of
\* an LLVM built with assertions, and reads past its operands otherwise.
SuccessorLabel(br, n, oob) ==
  IF n <= Len(br.succ) THEN br.succ[n]
  ELSE IF oob = "assert" THEN "abort" ELSE <<"garbage", 0, 0>>

\* cvtICmpBr: the compare, the conditional branch to the first successor
\* of the branch, the branch to its second successor.
cvtICmpBr(c, inst, br, wild, oob) ==
  With3(getCond(inst.intr), SuccessorLabel(br, 1, oob),
        SuccessorLabel(br, 2, oob), LAMBDA cond, taken, fallThrough :
    IF "abort" \in {taken, fallThrough}
      THEN Fatal(c, "Successor # out of range")
    ELSE IF cond = "LOG_FATAL" THEN Fatal(c, "Unexpected llvm condition")
    ELSE With(getLoc(c, inst.args[1], wild), LAMBDA s1 :
      With(IF IsConstantInt(inst.args[2])
             THEN AppendLIR(s1.c, "opRegImm", "kOpCmp", badLoc, s1.loc,
                            badLoc, inst.args[2][2])
             ELSE With(getLoc(s1.c, inst.args[2], wild), LAMBDA s2 :
                    AppendLIR(s2.c, "opRegReg", "kOpCmp", badLoc, s1.loc,
                              s2.loc, 0)), LAMBDA c1 :
        AppendLIR(AppendLIR(c1, "opCondBranch", <<cond, taken>>, badLoc,
                            badLoc, badLoc, 0),
                  "opUnconditionalBranch", fallThrough, badLoc, badLoc,
                  badLoc, 0))))

\* The instructions the switch names only to say they are not implemented.
UnimplementedOps ==
  {"Invoke", "Trunc", "FPToUI", "FPToSI", "UIToFP", "SIToFP", "FPTrunc",
   "FPExt", "PtrToInt", "IntToPtr", "Switch", "FCmp"}

\* The instructions the switch names only to say they are not expected.
UnexpectedOps ==
  {"URem", "UDiv", "Resume", "Alloca", "GetElementPtr", "Fence",
   "AtomicCmpXchg", "AtomicRMW", "BitCast", "VAArg", "Select", "UserOp1",
   "UserOp2", "ExtractElement", "InsertElement", "ShuffleVector",
   "ExtractValue", "InsertValue", "LandingPad", "IndirectBr", "Load",
   "Store"}

\* A plausible slip: an instruction without a converter is passed over.
unexpectedOpcode_Skips(c, inst) == c

\* The cases of the switch for the instructions without a converter.
unexpectedOpcode(c, inst) ==
  IF inst.op \in UnimplementedOps THEN Fatal(c, "UNIMPLEMENTED opcode")
  ELSE IF inst.op \in UnexpectedOps THEN Fatal(c, "Unexpected llvm opcode")
  ELSE Fatal(c, "Unknown llvm opcode")

\* The switch of methodBitcodeBlockCodeGen on one instruction; the handlers
\* of the instructions that are no arithmetic are entered as one call.
\* cvtIget: the object's location, then the call's.  The entry carries the
\* destination, the object and the field index.
cvtIget(c, inst, wild) ==
  With(getLoc(c, inst.args[2], wild), LAMBDA o :
    With(getLoc(o.c, inst.val, wild), LAMBDA d :
      AppendLIR(d.c, "cvtIget", inst.intr, d.loc, o.loc, badLoc,
                inst.args[3][2])))

\* cvtIput: the source's location, then the object's; the field index is
\* read from operand 2, the object, which dyn_cast does not take for a
\* ConstantInt: the read through the null pointer stops the process or
\* yields a value that is no index.
cvtIput(c, inst, wild, oob) ==
  With(getLoc(c, inst.args[2], wild), LAMBDA s1 :
    With(getLoc(s1.c, inst.args[3], wild), LAMBDA o :
      IF IsConstantInt(inst.args[3])
        THEN AppendLIR(o.c, "cvtIput", inst.intr, badLoc, s1.loc, o.loc,
                       inst.args[3][2])
      ELSE IF oob = "assert" THEN Fatal(o.c, "null fieldIdx")
      ELSE AppendLIR(o.c, "cvtIput", inst.intr, badLoc, s1.loc, o.loc,
                     NoOff)))

cvtInstruction(c, inst, wild, oob) ==
  CASE inst.op = "Call" ->
         With(IntrinsicHandler(inst.intr), LAMBDA h :
           CASE h = "ignore" -> c
             [] h \in {"kOpDiv", "kOpRem"} -> cvtBinOp(c, h, inst, wild)
             [] h \in {"INT_TO_CHAR", "INT_TO_SHORT", "INT_TO_BYTE"} ->
                  cvtIntNarrowing(c, inst, h, wild)
             [] h = "LOG_FATAL" -> Fatal(c, "Unexpected intrinsic")
             [] h = "cvtCall" -> cvtCall(c)
             [] h = "cvtInvoke" ->
                  cvtInvoke(c, inst, inst.intr = "HLInvokeVoid",
                            inst.intr = "FilledNewArray", wild, oob)
             [] h = "cvtIget" -> cvtIget(c, inst, wild)
             [] h = "cvtIput" -> cvtIput(c, inst, wild, oob)
             [] OTHER -> AppendLIR(c, h, inst.intr, badLoc, badLoc, badLoc, 0))
    [] inst.op = "Br" -> cvtBr(c, inst)
    [] inst.op = "Add" -> cvtBinOp(c, "kOpAdd", inst, wild)
    [] inst.op = "Sub" -> cvtBinOp(c, "kOpSub", inst, wild)
    [] inst.op = "Mul" -> cvtBinOp(c, "kOpMul", inst, wild)
    [] inst.op = "SDiv" -> cvtBinOp(c, "kOpDiv", inst, wild)
    [] inst.op = "SRem" -> cvtBinOp(c, "kOpRem", inst, wild)
    [] inst.op = "And" -> cvtBinOp(c, "kOpAnd", inst, wild)
    [] inst.op = "Or" -> cvtBinOp(c, "kOpOr", inst, wild)
    [] inst.op = "Xor" -> cvtBinOp(c, "kOpXor", inst, wild)
    [] inst.op = "Shl" -> cvtShiftOp(c, "kOpLsl", inst, wild, oob)
    [] inst.op = "LShr" -> cvtShiftOp(c, "kOpLsr", inst, wild, oob)
    [] inst.op = "AShr" -> cvtShiftOp(c, "kOpAsr", inst, wild, oob)
    [] inst.op = "PHI" -> c
    [] inst.op = "Ret" -> cvtRet(c, inst, wild)
    [] inst.op = "FAdd" -> cvtBinFPOp(c, "kOpAdd", inst, wild)
    [] inst.op = "FSub" -> cvtBinFPOp(c, "kOpSub", inst, wild)
    [] inst.op = "FMul" -> cvtBinFPOp(c, "kOpMul", inst, wild)
    [] inst.op = "FDiv" -> cvtBinFPOp(c, "kOpDiv", inst, wild)
    [] inst.op = "FRem" -> cvtBinFPOp(c, "kOpRem", inst, wild)
    [] inst.op = "ZExt" -> cvtIntExt(c, inst, FALSE, wild)
    [] inst.op = "SExt" -> cvtIntExt(c, inst, TRUE, wild)
    [] inst.op = "Unreachable" -> c
    [] inst.op = "CondBr" -> cvtBr(c, inst)
    [] inst.op = "ICmp" -> cvtICmp(c)
    [] OTHER -> unexpectedOpcode(c, inst)

\* One turn of the instruction loop: the offset from the DexOff metadata,
\* the boundary pseudo-op, the switch.  A compare followed by a branch,
\* conditional or not, is converted together with it, and the branch is
\* stepped over.  A block ends in a terminator, so that a compare has an
\* instruction after it.
instructionCodeGen(c, insts, k, wild, oob) ==
  With(AppendLIR([c EXCEPT !.currentDalvikOffset =
                    IF insts[k].off # NoOff THEN insts[k].off ELSE @],
                 "kPseudoDalvikByteCodeBoundary", "none", badLoc, badLoc,
                 badLoc, 0), LAMBDA c1 :
    IF insts[k].op = "ICmp" /\ k < Len(insts)
         /\ insts[k + 1].op \in {"Br", "CondBr"}
      THEN [c |-> cvtICmpBr(c1, insts[k], insts[k + 1], wild, oob),
            next |-> k + 2]
      ELSE [c |-> cvtInstruction(c1, insts[k], wild, oob), next |-> k + 1])

\* oatMethodBitcode2LIR up to the walk of the blocks: locMap is cleared,
\* then filled for the arguments and for every instruction named "v...".
RECURSIVE createLocs(_, _)
createLocs(c, vals) ==
  With(c, LAMBDA cc :
    IF vals = <<>> THEN cc
    ELSE createLocs(putLocFromValue(cc, Head(vals)), Tail(vals)))

NamedValues(c) ==
  [k \in 1..Len(c.args) |-> <<"arg", k - 1>>]
  \o Flatten([i \in 1..Len(c.blocks) |->
       LET named == SelectSeq(c.blocks[i].insts, LAMBDA x : x.name[1] = "v")
       IN [j \in 1..Len(named) |-> named[j].val]])

\* A plausible slip: the map is not cleared.
bitcode2LIRSetup_KeepsLocMap(c) ==
  With(c, LAMBDA cc : createLocs(cc, NamedValues(cc)))

bitcode2LIRSetup(c) ==
  With(c, LAMBDA cc : createLocs([cc EXCEPT !.locMap = <<>>], NamedValues(cc)))

\* sscanf of a block's name with kLabelFormat: the offset, or nothing when
\* the name does not begin as the format does.
ScanLabel(name) == IF name[1] = "L" THEN <<HexValue(name[2])>> ELSE <<>>

\* methodBitcodeBlockCodeGen before the instruction loop: the block's
\* label, its offset read from the block's name, and in the entry block
\* the entry sequence, handed the argLocs array: its entry says which
\* indices of the array were written.  The label was allocated zeroed and keeps its zero
\* when the scan assigns nothing.  The characters scanned belong to a
\* string already destroyed: they are read intact, or as something the
\* format does not match.
\* The entry block's loop over the function's arguments from arg_begin, the
\* Method* argument included: the indices of argLocs it writes, one for an
\* argument and one more for a 64-bit one.
RECURSIVE argLocsWritten(_, _, _)
argLocsWritten(c, k, i) ==
  IF k > Len(c.args) THEN <<>>
  ELSE IF c.args[k].ty \in {"Int64", "Double"}
    THEN <<i, i + 1>> \o argLocsWritten(c, k + 1, i + 2)
    ELSE <<i>> \o argLocsWritten(c, k + 1, i + 1)

blockCodeGenStart(c, i, nameRead) ==
  With(AppendLIR(c, "kPseudoNormalBlockLabel", c.blocks[i].name, badLoc,
                 badLoc, badLoc,
                 IF i = 1 \/ nameRead # "intact"
                      \/ ScanLabel(c.blocks[i].name) = <<>>
                   THEN 0 ELSE ScanLabel(c.blocks[i].name)[1]), LAMBDA c1 :
    IF i = 1
      THEN AppendLIR([c1 EXCEPT !.currentDalvikOffset = 0],
                     "genEntrySequence", argLocsWritten(c1, 1, 0), badLoc,
                     badLoc, badLoc, 0)
      ELSE c1)

(***************************************************************************)
(* oatMethodBitcode2LIR, step by step.                                     *)
(***************************************************************************)
\* What a wild read may give as a location.
WildLocs == {badLoc, TempLoc(TRUE)}

\* What a read through a pointer that points at nothing may do, such as
\* asking a branch for a successor it does not have: stop the run, or give
\* whatever is there.
OutOfRange == {"assert", "garbage"}

\* What reading the characters of a destroyed string may give.
NameReads == {"intact", "garbage"}

Bitcode2LIR ==
  /\ pc = "done"
  /\ cUnit.status = "ok"
  /\ cUnit' = bitcode2LIRSetup(cUnit)
  /\ pc' = "r_block"
  /\ bbIdx' = 1
  /\ mirIdx' = 0
  /\ UNCHANGED <<method, locIn, locTy, locOut>>

BlockCodeGenStart ==
  /\ pc = "r_block"
  /\ bbIdx <= Len(cUnit.blocks)
  /\ \E nameRead \in NameReads :
       cUnit' = blockCodeGenStart(cUnit, bbIdx, nameRead)
  /\ pc' = "r_inst"
  /\ mirIdx' = 1
  /\ UNCHANGED <<method, bbIdx, locIn, locTy, locOut>>

InstructionCodeGen ==
  /\ pc = "r_inst"
  /\ mirIdx <= Len(cUnit.blocks[bbIdx].insts)
  /\ \E wild \in WildLocs, oob \in OutOfRange :
       \E r \in {instructionCodeGen(cUnit, cUnit.blocks[bbIdx].insts, mirIdx,
                                    wild, oob)} :
         /\ cUnit' = r.c
         /\ mirIdx' = r.next
         /\ pc' = IF r.c.status = "fatal" THEN "aborted" ELSE "r_inst"
  /\ UNCHANGED <<method, bbIdx, locIn, locTy, locOut>>

\* The block is done: oatApplyLocalOptimizations, then the next block.
BlockCodeGenEnd ==
  /\ pc = "r_inst"
  /\ mirIdx > Len(cUnit.blocks[bbIdx].insts)
  /\ bbIdx' = bbIdx + 1
  /\ pc' = "r_block"
  /\ UNCHANGED <<method, cUnit, mirIdx, locIn, locTy, locOut>>

\* The launchpads are handled and the IR is freed.
Bitcode2LIRFinish ==
  /\ pc = "r_block"
  /\ bbIdx > Len(cUnit.blocks)
  /\ pc' = "r_done"
  /\ UNCHANGED <<method, cUnit, bbIdx, mirIdx, locIn, locTy, locOut>>

(***************************************************************************)
(* Specification SpecArith: a straight-line arithmetic method converted    *)
(* forward and then back.                                                  *)
(***************************************************************************)
MaxArithBody == 2

ArithShapes ==
  {[ins |-> <<"I", "I">>, isStatic |-> TRUE],
   [ins |-> <<"I", "J">>, isStatic |-> TRUE],
   [ins |-> <<"J", "I">>, isStatic |-> TRUE],
   [ins |-> <<"J">>, isStatic |-> TRUE],
   [ins |-> <<"F", "F">>, isStatic |-> TRUE],
   [ins |-> <<"D">>, isStatic |-> TRUE]}

ArithOps ==
  {"ADD_INT", "SUB_INT", "MUL_INT", "DIV_INT", "REM_INT", "AND_INT",
   "OR_INT", "XOR_INT", "SHL_INT", "SHR_INT", "USHR_INT", "ADD_LONG",
   "SUB_LONG", "MUL_LONG", "DIV_LONG", "REM_LONG", "AND_LONG", "OR_LONG",
   "XOR_LONG", "SHL_LONG", "SHR_LONG", "USHR_LONG", "ADD_FLOAT",
   "SUB_FLOAT", "MUL_FLOAT", "DIV_FLOAT", "REM_FLOAT", "ADD_DOUBLE",
   "SUB_DOUBLE", "MUL_DOUBLE", "DIV_DOUBLE", "REM_DOUBLE", "ADD_INT_LIT8",
   "ADD_INT_LIT16", "RSUB_INT", "RSUB_INT_LIT8", "MUL_INT_LIT8",
   "MUL_INT_LIT16", "DIV_INT_LIT8", "DIV_INT_LIT16", "REM_INT_LIT8",
   "REM_INT_LIT16", "AND_INT_LIT8", "AND_INT_LIT16", "OR_INT_LIT8",
   "OR_INT_LIT16", "XOR_INT_LIT8", "XOR_INT_LIT16", "SHL_INT_LIT8",
   "SHR_INT_LIT8", "USHR_INT_LIT8"}

ArithMethods ==
  MethodsOf({"straight"}, ArithShapes, ItemsOf(ArithOps), MaxArithBody)

InitArith ==
  /\ pc = "start"
  /\ method \in ArithMethods
  /\ cUnit = NewUnit(method)
  /\ bbIdx = 0
  /\ mirIdx = 0
  /\ LocIdle

NextArith ==
  \/ CreateFunction
  \/ CreateLLVMBasicBlock
  \/ PreDeclare
  \/ BlockStart
  \/ ConvertMIR
  \/ BlockEnd
  \/ Finish
  \/ Bitcode2LIR
  \/ BlockCodeGenStart
  \/ InstructionCodeGen
  \/ BlockCodeGenEnd
  \/ Bitcode2LIRFinish

SpecArith == InitArith /\ [][NextArith]_vars

(***************************************************************************)
(* Specification SpecThrow: the forward pass on the methods whose blocks   *)
(* end in every kind of terminator - a conditional branch, a goto, a       *)
(* throw, a throw-verification-error, a return - with and without an       *)
(* exception-handling block.                                               *)
(***************************************************************************)
InitThrow ==
  /\ pc = "start"
  /\ method \in MethodsOf({"exc", "fwd", "throw", "tve"}, ArgShapes,
                          ItemsOf({"NOP", "CONST", "NEW_INSTANCE", "SGET"}),
                          MaxBody)
  /\ cUnit = NewUnit(method)
  /\ bbIdx = 0
  /\ mirIdx = 0
  /\ LocIdle

SpecThrow == InitThrow /\ [][Next]_vars

(***************************************************************************)
(* Specification SpecFull: the methods of Spec converted forward and then  *)
(* back.                                                                   *)
(***************************************************************************)
SpecFull == Init /\ [][NextArith]_vars

(***************************************************************************)
(* Specification SpecBinOp: the reverse pass run on a function of one      *)
(* two-operand integer instruction, its operands two arguments or an       *)
(* argument and a constant, and the return of its result.                  *)
(***************************************************************************)
MaxConst == 5

\* The function "ret (op lhs, rhs)" over two arguments of type ty.
BinOpFunction(op, lhs, rhs, ty) ==
  With([NewUnit([blocks |-> <<>>])
          EXCEPT !.args = <<[name |-> <<"method", 0, 0>>, ty |-> "JMethod"],
                            [name |-> <<"v", 1, 0>>, ty |-> ty],
                            [name |-> <<"v", 2, 0>>, ty |-> ty]>>,
                 !.retTy = ty,
                 !.blocks = <<NewBlock(EntryName)>>,
                 !.ip = EntryName,
                 !.entryBB = EntryName,
                 !.off = 0], LAMBDA c0 :
    With(CreateBinary(c0, op, lhs, rhs), LAMBDA c1 :
      With(SetName(c1, LastVal(c1), <<"v", 0, 1>>), LAMBDA c2 :
        [Emit(c2, "Ret", "none", <<LastVal(c1)>>, "Void", <<>>)
           EXCEPT !.verified = "ok"])))

ConstOf(ty, k) == IF ty = "Int64" THEN CLong(k) ELSE CInt(k)

\* A constant first operand comes with a subtraction only.
BinOpFunctions ==
  {BinOpFunction(op, <<"arg", 1>>, <<"arg", 2>>, ty) :
     op \in {"Add", "Sub", "Mul", "SDiv", "SRem", "And", "Or", "Xor"},
     ty \in {"Int32", "Int64"}}
  \cup {BinOpFunction(op, <<"arg", 1>>, <<"arg", 2>>, "Int32") :
          op \in {"Shl", "LShr", "AShr"}}
  \cup {BinOpFunction(op, <<"arg", 1>>, ConstOf(ty, k), ty) :
          op \in {"Add", "Sub", "Mul", "SDiv", "SRem", "And", "Or", "Xor"},
          ty \in {"Int32", "Int64"}, k \in 0..MaxConst}
  \cup {BinOpFunction(op, <<"arg", 1>>, CInt(k), "Int32") :
          op \in {"Shl", "LShr", "AShr"}, k \in 0..MaxConst}
  \cup {BinOpFunction("Sub", ConstOf(ty, k), <<"arg", 1>>, ty) :
          ty \in {"Int32", "Int64"}, k \in 0..MaxConst}

InitBinOp ==
  /\ pc = "done"
  /\ method = NoMethod
  /\ cUnit \in BinOpFunctions
  /\ bbIdx = 0
  /\ mirIdx = 0
  /\ LocIdle

NextBinOp ==
  \/ Bitcode2LIR
  \/ BlockCodeGenStart
  \/ InstructionCodeGen
  \/ BlockCodeGenEnd
  \/ Bitcode2LIRFinish

SpecBinOp == InitBinOp /\ [][NextBinOp]_vars

(***************************************************************************)
(* Specification SpecRev: the reverse pass run on a function of three      *)
(* blocks, the entry block, a block of one or two instructions and a       *)
(* branch, and the block that returns.  The middle block's name is a       *)
(* label, or empty, or a name that is no label; its instructions are of    *)
(* the kinds the switch converts and of the kinds it does not.  And on a    *)
(* function of one block that returns a 64-bit shift.                      *)
(***************************************************************************)
RevExit == LabelName(9, 3)

RevNames == {LabelName(4, 2), LabelName(26, 2), NoName, <<"bb", 4, 2>>}

RevOp(op, intr, rhs) == [op |-> op, intr |-> intr, rhs |-> rhs]

RECURSIVE EmitAll(_, _)
EmitAll(c, ops) ==
  With(c, LAMBDA cc :
    IF ops = <<>> THEN cc
    ELSE EmitAll(Emit(cc, Head(ops).op, Head(ops).intr,
                      <<<<"arg", 1>>, Head(ops).rhs>>,
                      IF Head(ops).op = "ICmp" THEN "Int1" ELSE "Int32",
                      <<>>),
                 Tail(ops)))

\* "entry: br B.  B: ops; term.  exit: ret void", B named bname.
RevFunction(bname, ops, term) ==
  With([NewUnit([blocks |-> <<>>])
          EXCEPT !.args = <<[name |-> <<"method", 0, 0>>, ty |-> "JMethod"],
                            [name |-> <<"v", 1, 0>>, ty |-> "Int32"],
                            [name |-> <<"v", 2, 0>>, ty |-> "Int32"]>>,
                 !.retTy = "Void",
                 !.blocks = <<NewBlock(EntryName), NewBlock(bname),
                              NewBlock(RevExit)>>,
                 !.ip = EntryName,
                 !.entryBB = EntryName,
                 !.off = 0], LAMBDA c0 :
    With(EmitAll([Emit(c0, "Br", "none", <<>>, "Void", <<bname>>)
                    EXCEPT !.ip = bname, !.off = 4], ops), LAMBDA c1 :
      With(IF term = "CondBr"
             THEN Emit(c1, "CondBr", "none", <<LastVal(c1)>>, "Void",
                       <<RevExit, bname>>)
             ELSE Emit(c1, "Br", "none", <<>>, "Void", <<RevExit>>),
           LAMBDA c2 :
        [Emit([c2 EXCEPT !.ip = RevExit, !.off = 9], "Ret", "none", <<>>,
              "Void", <<>>)
           EXCEPT !.verified = "ok"])))

RevCompares ==
  {RevOp("ICmp", cc, rhs) :
     cc \in {"kCondEq", "kCondLt"}, rhs \in {<<"arg", 2>>, CInt(0)}}

RevOthers ==
  {RevOp(op, "none", <<"arg", 2>>) :
     op \in UnimplementedOps \cup UnexpectedOps
             \cup {"Add", "Xor", "Unreachable", "CatchPad"}}
  \cup {RevOp("Call", id, <<"arg", 2>>) :
          id \in {"UnknownId", "HLSput", "CopyInt", "PopShadowFrame"}}

RevFunctions ==
  {RevFunction(bname, <<cmp>>, term) :
     bname \in RevNames, cmp \in RevCompares, term \in {"Br", "CondBr"}}
  \cup {RevFunction(bname, <<cmp, RevOp("Add", "none", <<"arg", 2>>)>>, "Br") :
          bname \in RevNames, cmp \in RevCompares}
  \cup {RevFunction(bname, <<o>>, "Br") : bname \in RevNames, o \in RevOthers}

\* "t = count; v0_1 = op i64 v1_0, t; ret v0_1": the count the widening of
\* a 32-bit argument, a 64-bit sum, a 64-bit argument or a constant.
ShiftFunction(op, count) ==
  With([NewUnit([blocks |-> <<>>])
          EXCEPT !.args = <<[name |-> <<"method", 0, 0>>, ty |-> "JMethod"],
                            [name |-> <<"v", 1, 0>>, ty |-> "Int64"],
                            [name |-> <<"v", 3, 0>>, ty |-> "Int32"],
                            [name |-> <<"v", 4, 0>>, ty |-> "Int64"]>>,
                 !.retTy = "Int64",
                 !.blocks = <<NewBlock(EntryName)>>,
                 !.ip = EntryName,
                 !.entryBB = EntryName,
                 !.off = 0], LAMBDA c0 :
    With(CASE count \in {"ZExt", "SExt"} ->
                Emit(c0, count, "none", <<<<"arg", 2>>>>, "Int64", <<>>)
           [] count = "Add" ->
                Emit(c0, "Add", "none", <<<<"arg", 3>>, <<"arg", 1>>>>,
                     "Int64", <<>>)
           [] OTHER -> c0, LAMBDA c1 :
      With(Emit(c1, op, "none",
                <<<<"arg", 1>>,
                  CASE count \in {"ZExt", "SExt", "Add"} -> LastVal(c1)
                    [] count = "arg" -> <<"arg", 3>>
                    [] OTHER -> CLong(3)>>, "Int64", <<>>), LAMBDA c2 :
        With(SetName(c2, LastVal(c2), <<"v", 0, 1>>), LAMBDA c3 :
          [Emit(c3, "Ret", "none", <<LastVal(c2)>>, "Void", <<>>)
             EXCEPT !.verified = "ok"]))))

ShiftFunctions ==
  {ShiftFunction(op, count) :
     op \in {"Shl", "AShr", "LShr"},
     count \in {"ZExt", "SExt", "Add", "arg", "const"}}

InitRev ==
  /\ pc = "done"
  /\ method = NoMethod
  /\ cUnit \in RevFunctions \cup ShiftFunctions
  /\ bbIdx = 0
  /\ mirIdx = 0
  /\ LocIdle

NextRev ==
  \/ Bitcode2LIR
  \/ BlockCodeGenStart
  \/ InstructionCodeGen
  \/ BlockCodeGenEnd
  \/ Bitcode2LIRFinish

SpecRev == InitRev /\ [][NextRev]_vars

(***************************************************************************)
(* What the properties speak of.                                           *)
(***************************************************************************)
\* The opcodes convertMIRNode has a case for.
SupportedOpcodes ==
  {"NOP", "MOVE", "MOVE_OBJECT", "MOVE_WIDE", "CONST", "CONST_4",
   "CONST_WIDE", "SPUT", "SPUT_OBJECT", "SPUT_WIDE", "SGET", "SGET_OBJECT",
   "SGET_WIDE", "RETURN", "RETURN_WIDE", "RETURN_OBJECT", "RETURN_VOID",
   "IF_EQ", "IF_NE", "IF_LT", "IF_GE", "IF_GT", "IF_LE", "IF_EQZ", "IF_NEZ",
   "IF_LTZ", "IF_GEZ", "IF_GTZ", "IF_LEZ", "GOTO", "ADD_INT", "ADD_LONG",
   "SUB_INT", "SUB_LONG", "MUL_INT", "MUL_LONG", "DIV_INT", "DIV_LONG",
   "REM_INT", "REM_LONG", "AND_INT", "AND_LONG", "OR_INT", "OR_LONG",
   "XOR_INT", "XOR_LONG", "SHL_INT", "SHL_LONG", "SHR_INT", "SHR_LONG",
   "USHR_INT", "USHR_LONG", "ADD_INT_LIT8", "ADD_INT_LIT16", "RSUB_INT",
   "RSUB_INT_LIT8", "MUL_INT_LIT8", "MUL_INT_LIT16", "DIV_INT_LIT8",
   "DIV_INT_LIT16", "REM_INT_LIT8", "REM_INT_LIT16", "AND_INT_LIT8",
   "AND_INT_LIT16", "OR_INT_LIT8", "OR_INT_LIT16", "XOR_INT_LIT8",
   "XOR_INT_LIT16", "SHL_INT_LIT8", "SHR_INT_LIT8", "USHR_INT_LIT8",
   "ADD_FLOAT", "ADD_DOUBLE", "SUB_FLOAT", "SUB_DOUBLE",
   "MUL_FLOAT", "MUL_DOUBLE", "DIV_FLOAT", "DIV_DOUBLE", "REM_FLOAT",
   "REM_DOUBLE", "INVOKE_STATIC", "INVOKE_DIRECT", "INVOKE_VIRTUAL",
   "INVOKE_SUPER", "INVOKE_INTERFACE", "FILLED_NEW_ARRAY", "CONST_STRING",
   "CONST_CLASS", "CHECK_CAST", "NEW_INSTANCE", "MOVE_EXCEPTION", "THROW",
   "THROW_VERIFICATION_ERROR", "MOVE_RESULT", "MONITOR_ENTER",
   "MONITOR_EXIT", "ARRAY_LENGTH", "NEW_ARRAY", "INSTANCE_OF", "AGET",
   "AGET_OBJECT", "APUT", "IGET", "IGET_OBJECT", "IGET_WIDE", "IPUT",
   "IPUT_OBJECT", "FILL_ARRAY_DATA", "INT_TO_LONG", "INT_TO_CHAR",
   "INT_TO_BYTE", "INT_TO_SHORT", "kMirOpPhi"}

Converting == pc \in {"block_start", "block_mir", "block_end", "aborted"}

\* The k-th MIR of block b has been handed to the converter.
MirConverted(b, k) ==
  \/ pc \in {"finish", "done"}
  \/ /\ Converting
     /\ \E i \in 1..(bbIdx - 1) : method.dfsOrder[i] = b
  \/ /\ Converting
     /\ CurBB = b
     /\ \/ pc = "block_mir" /\ k < mirIdx
        \/ pc = "block_end"
        \/ pc = "aborted" /\ k <= mirIdx

\* The slots some MIR of the method defines.
DefinedSlots(m) ==
  UNION {{x.defs[1] : x \in {y \in Range(m.blocks[i].mirs) : y.defs # <<>>}} :
           i \in 1..Len(m.blocks)}

IsPlaceholder(v) == v[1] = "ph"

\* The instructions of the function's block of that name, none if there
\* is no such block.
InstsOf(c, bname) ==
  IF HasBlock(c, bname) THEN c.blocks[BlockIdx(c, bname)].insts ELSE <<>>

(* C1 as stated: once the forward conversion is finished (the placeholder  *)
(* block erased), no instruction of the function has a placeholder as an   *)
(* operand, and the registry entry of no slot that a source instruction    *)
(* defines is still its placeholder - for every defining opcode,           *)
(* ARRAY_LENGTH included.                                                  *)
C1_AllPlaceholdersReplaced ==
  pc = "done" =>
    /\ \A x \in AllInsts(cUnit) :
         \A k \in 1..Len(x.args) : ~IsPlaceholder(x.args[k])
    /\ \A s \in DefinedSlots(method) :
         ~IsPlaceholder(getLLVMValue(cUnit, s))

(* C2 as stated: from the end of the pre-declaration loop on, for every    *)
(* 64-bit slot s (a definition or an argument) the registry entry of the   *)
(* paired slot s+1 is null, and no instruction has a value held at s+1 as  *)
(* an operand.                                                             *)
C2_HighHalfNeverMaterialized ==
  pc \in {"block_start", "block_mir", "block_end", "finish", "done"} =>
    \A s \in {t \in 0..(method.numSSARegs - 1) :
                method.regLocation[t + 1].wide} :
      /\ getLLVMValue(cUnit, s + 1) = Null
      /\ \A x \in AllInsts(cUnit) :
           \A k \in 1..Len(x.args) :
             x.args[k] = getLLVMValue(cUnit, s + 1) => x.args[k] = Null

\* The last MIR of source block i (element i of method.blocks) is a branch
\* that has been converted.
BranchConverted(i) ==
  /\ method.blocks[i].mirs # <<>>
  /\ method.blocks[i].mirs[Len(method.blocks[i].mirs)].opcode
       \in {"IF_EQ", "IF_NE", "IF_LT", "IF_GE", "IF_GT", "IF_LE", "IF_EQZ",
            "IF_NEZ", "IF_LTZ", "IF_GEZ", "IF_GTZ", "IF_LEZ", "GOTO"}
  /\ MirConverted(i - 1, Len(method.blocks[i].mirs))

\* The taken target of source block i starts at or before the block.
BackwardBranch(i) ==
  method.blocks[method.blocks[i].taken + 1].startOffset
    <= method.blocks[i].startOffset

\* What the last MIR of source block i emitted, in order: the opcode of
\* each instruction that carries the MIR's offset, an intrinsic call by
\* the intrinsic's name.
EmittedByLast(i) ==
  LET last == method.blocks[i].mirs[Len(method.blocks[i].mirs)]
      mine == SelectSeq(InstsOf(cUnit, getLLVMBlock(cUnit, i)),
                        LAMBDA x : x.off = last.offset)
  IN [k \in 1..Len(mine) |->
        IF mine[k].op = "Call" THEN mine[k].intr ELSE mine[k].op]

BranchProper(i) ==
  IF method.blocks[i].mirs[Len(method.blocks[i].mirs)].opcode = "GOTO"
    THEN <<"Br">> ELSE <<"ICmp", "CondBr">>

(* C5: a converted IF_xx, IF_xxZ or GOTO whose taken target starts at or   *)
(* before the start of its own block has emitted a CheckSuspend call and,  *)
(* directly after it, the branch (the compare and the conditional branch   *)
(* for an IF); one whose target starts later has emitted the branch alone. *)
C5_SuspendCheckOnBackwardBranch ==
  \A i \in 1..Len(method.blocks) :
    BranchConverted(i) =>
      EmittedByLast(i) = (IF BackwardBranch(i) THEN <<"CheckSuspend">>
                          ELSE <<>>) \o BranchProper(i)

C5_Witness ==
  /\ pc = "done"
  /\ \E i \in 1..Len(method.blocks) :
       /\ BranchConverted(i)
       /\ BackwardBranch(i)
       /\ EmittedByLast(i) = <<"CheckSuspend", "Br">>
  /\ \E i \in 1..Len(method.blocks) :
       /\ BranchConverted(i)
       /\ ~BackwardBranch(i)
       /\ EmittedByLast(i) = <<"ICmp", "CondBr">>

\* The entry block has been converted: the shadow map is built.
ShadowMapBuilt ==
  \/ pc \in {"block_mir", "block_end", "finish", "done", "aborted"}
  \/ pc = "block_start" /\ bbIdx > 1

\* The registers some SSA slot of which is an object reference.
RefRegisters ==
  {r \in 0..(method.numRegs + method.numIns - 1) :
     \E s \in 0..(method.numSSARegs - 1) :
       SRegToVReg(method, s) = r /\ method.regLocation[s + 1].ref}

(* C8: the shadow map has one slot for each register with an object        *)
(* reference among its SSA slots, and the slot of such a register is the   *)
(* number of such registers below it - so it depends on the set of those   *)
(* registers alone, and the map ascends.                                   *)
C8_ShadowSlotByRegisterSet ==
  ShadowMapBuilt =>
    /\ Len(cUnit.shadowMap) = Cardinality(RefRegisters)
    /\ cUnit.numShadowFrameEntries = Cardinality(RefRegisters)
    /\ \A r \in RefRegisters :
         cUnit.shadowMap[1 + Cardinality({q \in RefRegisters : q < r})] = r

C8_Witness ==
  /\ ShadowMapBuilt
  /\ Len(cUnit.shadowMap) >= 2
  /\ cUnit.shadowMap[1] < method.numRegs
  /\ \E s \in DefinedSlots(method) : method.regLocation[s + 1].ref

\* How many blocks of the finished function bear the name.
BlocksNamed(bname) ==
  Cardinality({j \in 1..Len(cUnit.blocks) : cUnit.blocks[j].name = bname})

(* C9: in the finished function there is no block for the source exit      *)
(* block and none for a kExceptionHandling block; every other source block *)
(* has exactly one block of its own, the entry block's being "entry", and  *)
(* the function has no further block.                                      *)
C9_BlocksOfTheFunction ==
  pc = "done" =>
    /\ \A i \in 1..Len(method.blocks) :
         CASE method.blocks[i].blockType = "kExitBlock" ->
                getLLVMBlock(cUnit, i) = NoBlock
           [] method.blocks[i].blockType = "kExceptionHandling" ->
                BlocksNamed(getLLVMBlock(cUnit, i)) = 0
           [] OTHER ->
                /\ BlocksNamed(getLLVMBlock(cUnit, i)) = 1
                /\ \A j \in 1..Len(method.blocks) :
                     j # i => getLLVMBlock(cUnit, j) # getLLVMBlock(cUnit, i)
                /\ method.blocks[i].blockType = "kEntryBlock"
                     <=> getLLVMBlock(cUnit, i) = EntryName
    /\ Len(cUnit.blocks)
         = Cardinality({i \in 1..Len(method.blocks) :
                          method.blocks[i].blockType
                            \notin {"kExitBlock", "kExceptionHandling"}})

C9_Witness ==
  /\ pc = "done"
  /\ \E i \in 1..Len(method.blocks) :
       /\ method.blocks[i].blockType = "kExceptionHandling"
       /\ getLLVMBlock(cUnit, i) # NoBlock
       /\ BlocksNamed(getLLVMBlock(cUnit, i)) = 0
  /\ BlocksNamed(EntryName) = 1

\* The MIRs handed to the converter whose opcode it has no case for, each
\* with its offset.
UnsupportedFed ==
  UNION {{method.blocks[i].mirs[k] :
            k \in {j \in 1..Len(method.blocks[i].mirs) :
                     /\ MirConverted(i - 1, j)
                     /\ method.blocks[i].mirs[j].opcode
                          \notin SupportedOpcodes}} :
           i \in 1..Len(method.blocks)}

(* C10 as stated: an opcode outside the supported set, once fed to the     *)
(* converter, has been reported with its offset and its name and has made  *)
(* the compilation of the method fail, without the process aborting.       *)
C10_UnsupportedOpcodeFailsTheMethod ==
  \A mir \in UnsupportedFed :
    /\ \E k \in 1..Len(cUnit.log) :
         cUnit.log[k].offset = mir.offset /\ cUnit.log[k].name = mir.opcode
    /\ cUnit.status = "failed"
    /\ pc # "aborted"

\* The instruction of a function of SpecBinOp and what the code generator
\* was called with for it.
TheBinOp == cUnit.blocks[1].insts[1]

ArithLIR ==
  SelectSeq(cUnit.lir, LAMBDA l :
    l.kind \in {"genArithOpInt", "genArithOpIntLit", "genArithOpLong"})

(* C6 as stated: an integer subtract has been converted by the position of *)
(* its constant: x - c to a literal subtract of x with literal c, c - x to *)
(* a reverse subtract of x with literal c, x - y to SUB_INT, or SUB_LONG   *)
(* when the result is wide, of x and y.                                    *)
C6_SubtractByConstantPosition ==
  (pc = "r_done" /\ method = NoMethod /\ TheBinOp.op = "Sub") =>
    /\ Len(ArithLIR) = 1
    /\ CASE IsConstantInt(TheBinOp.args[2]) ->
              /\ ArithLIR[1].kind = "genArithOpIntLit"
              /\ ArithLIR[1].opcode[1] = "SUB"
              /\ ArithLIR[1].opcode[2] \in {"INT_LIT8", "INT_LIT16"}
              /\ ArithLIR[1].lit = TheBinOp.args[2][2]
              /\ ArithLIR[1].rlSrc1 = LocMapGet(cUnit, TheBinOp.args[1])
         [] IsConstantInt(TheBinOp.args[1]) ->
              /\ ArithLIR[1].kind = "genArithOpIntLit"
              /\ ArithLIR[1].opcode[1] = "RSUB"
              /\ ArithLIR[1].lit = TheBinOp.args[1][2]
              /\ ArithLIR[1].rlSrc1 = LocMapGet(cUnit, TheBinOp.args[2])
         [] OTHER ->
              /\ ArithLIR[1].opcode
                   = <<"SUB", IF ArithLIR[1].rlDest.wide THEN "LONG"
                              ELSE "INT">>
              /\ ArithLIR[1].rlDest.wide = (TheBinOp.ty = "Int64")
              /\ ArithLIR[1].rlSrc1 = LocMapGet(cUnit, TheBinOp.args[1])
              /\ ArithLIR[1].rlSrc2 = LocMapGet(cUnit, TheBinOp.args[2])

\* The MIRs of the body of a straight-line method and the operations the
\* reverse pass generated for the body's block: the calls after the block's
\* label, the boundary pseudo-ops and the store of a return's value aside.
BodyMIRs == method.blocks[3].mirs

BodyLIR ==
  LET at == CHOOSE i \in 1..Len(cUnit.lir) :
              /\ cUnit.lir[i].kind = "kPseudoNormalBlockLabel"
              /\ cUnit.lir[i].opcode = getLLVMBlock(cUnit, 3)
  IN SelectSeq(SubSeq(cUnit.lir, at + 1, Len(cUnit.lir)), LAMBDA l :
       l.kind \notin {"kPseudoDalvikByteCodeBoundary", "storeValue",
                      "storeValueWide"})

\* The kind of an operation: what it computes, on which class, and whether
\* its second operand is a literal.
KindOfMIR(mir) ==
  <<OpKindOf(mir.opcode), OpInfo(mir.opcode).d, OpInfo(mir.opcode).uc = "-">>

KindOfLIR(l) ==
  <<CASE l.opcode[1] = "ADD" -> "kOpAdd" [] l.opcode[1] = "SUB" -> "kOpSub"
      [] l.opcode[1] = "RSUB" -> "kOpRsub" [] l.opcode[1] = "MUL" -> "kOpMul"
      [] l.opcode[1] = "DIV" -> "kOpDiv" [] l.opcode[1] = "REM" -> "kOpRem"
      [] l.opcode[1] = "AND" -> "kOpAnd" [] l.opcode[1] = "OR" -> "kOpOr"
      [] l.opcode[1] = "XOR" -> "kOpXor" [] l.opcode[1] = "SHL" -> "kOpLsl"
      [] l.opcode[1] = "SHR" -> "kOpAsr" [] l.opcode[1] = "USHR" -> "kOpLsr"
      [] OTHER -> "kOpInvalid",
    CASE l.opcode[2] = "LONG" -> "J" [] l.opcode[2] = "FLOAT" -> "F"
      [] l.opcode[2] = "DOUBLE" -> "D" [] OTHER -> "I",
    l.kind = "genArithOpIntLit">>

\* The location is the one the reverse pass made for the value of the slot.
IsLocOfSlot(loc, s) ==
  \E i \in 1..Len(cUnit.locMap) :
    /\ NameOfValue(cUnit, cUnit.locMap[i].val) = llvmSSAName(method, s)
    /\ cUnit.locMap[i].loc = loc

SameOperation(mir, l) ==
  IF mir.opcode \in {"RETURN", "RETURN_WIDE", "RETURN_VOID"}
    THEN l.kind = "genExitSequence"
    ELSE /\ l.kind \in {"genArithOpInt", "genArithOpIntLit",
                         "genArithOpLong", "genArithOpFloat",
                         "genArithOpDouble", "genShiftOpLong"}
         /\ KindOfLIR(l) = KindOfMIR(mir)
         /\ l.rlDest.wide = PrepDest(method, mir).wide
         /\ l.rlDest.fp = PrepDest(method, mir).fp
         /\ l.rlDest.ref = PrepDest(method, mir).ref
         /\ IsLocOfSlot(l.rlSrc1, PrepSrc(method, mir)[1].origSReg)
         /\ OpInfo(mir.opcode).uc # "-"
              => IsLocOfSlot(l.rlSrc2, PrepSrc(method, mir)[2].origSReg)

(* C7 as stated: a straight-line arithmetic method, converted forward and  *)
(* back, gives for its instructions, one for one and in order, operations  *)
(* of the same kind, with a result location of the same wide/fp/ref        *)
(* classification and the operands in the same order.                      *)
C7_ArithmeticRoundTrip ==
  (pc = "r_done" /\ method # NoMethod) =>
    /\ Len(BodyLIR) = Len(BodyMIRs)
    /\ \A k \in 1..Len(BodyMIRs) :
         k <= Len(BodyLIR) => SameOperation(BodyMIRs[k], BodyLIR[k])

\* The MIRs handed to the converter so far that define a slot, as
\* <<block, index>> pairs (block i is element i of method.blocks).
DefiningConverted ==
  {p \in UNION {{<<i, k>> : k \in 1..Len(method.blocks[i].mirs)} :
                  i \in 1..Len(method.blocks)} :
     /\ method.blocks[p[1]].mirs[p[2]].defs # <<>>
     /\ MirConverted(p[1] - 1, p[2])}

\* The slot the MIR at the pair defines.
SlotOf(p) == method.blocks[p[1]].mirs[p[2]].defs[1]

\* The instructions outside the placeholder block.
RealInsts ==
  UNION {Range(cUnit.blocks[i].insts) :
           i \in {j \in 1..Len(cUnit.blocks) :
                    cUnit.blocks[j].name # PlaceholderName}}

(* C11 as stated: once an instruction that defines slot s is converted (and *)
(* the conversion has not aborted), no instruction uses the placeholder of  *)
(* s any more, the registry entry of s is a real value and not the          *)
(* placeholder, and that value bears the SSA name of s - for every opcode   *)
(* that defines a slot.                                                     *)
C11_DefineValueContract ==
  cUnit.status = "ok" =>
    \A p \in DefiningConverted :
      /\ \A x \in RealInsts :
           \A k \in 1..Len(x.args) : x.args[k] # <<"ph", SlotOf(p)>>
      /\ getLLVMValue(cUnit, SlotOf(p)) # <<"ph", SlotOf(p)>>
      /\ NameOfValue(cUnit, getLLVMValue(cUnit, SlotOf(p)))
           = llvmSSAName(method, SlotOf(p))

\* The last MIR of source block i is a return that has been converted.
ReturnConverted(i) ==
  /\ method.blocks[i].mirs # <<>>
  /\ method.blocks[i].mirs[Len(method.blocks[i].mirs)].opcode
       \in {"RETURN", "RETURN_WIDE", "RETURN_OBJECT", "RETURN_VOID"}
  /\ MirConverted(i - 1, Len(method.blocks[i].mirs))

\* The entry block holds the call that allocates the shadow frame.
ShadowFrameAllocated ==
  \E x \in Range(InstsOf(cUnit, EntryName)) :
    x.op = "Call" /\ x.intr = "AllocaShadowFrame"

(* C12 as stated: a converted return has emitted a CheckSuspend call        *)
(* exactly when the method is not a leaf, then a PopShadowFrame call        *)
(* exactly when the entry block allocated a shadow frame, then the return.  *)
C12_ReturnPopsAllocatedFrame ==
  \A i \in 1..Len(method.blocks) :
    ReturnConverted(i) =>
      EmittedByLast(i)
        = (IF ~method.isLeaf THEN <<"CheckSuspend">> ELSE <<>>)
          \o (IF ShadowFrameAllocated THEN <<"PopShadowFrame">> ELSE <<>>)
          \o <<"Ret">>

\* The last MIR of source block i is a conditional compare-and-branch that
\* has been converted.
IfConverted(i) ==
  /\ method.blocks[i].mirs # <<>>
  /\ method.blocks[i].mirs[Len(method.blocks[i].mirs)].opcode
       \in {"IF_EQ", "IF_NE", "IF_LT", "IF_GE", "IF_GT", "IF_LE", "IF_EQZ",
            "IF_NEZ", "IF_LTZ", "IF_GEZ", "IF_GTZ", "IF_LEZ"}
  /\ MirConverted(i - 1, Len(method.blocks[i].mirs))

\* The block driver has left source block i.
BlockDone(i) ==
  \/ pc \in {"finish", "done"}
  \/ Converting /\ \E j \in 1..(bbIdx - 1) : method.dfsOrder[j] = i - 1

\* The terminators of the block made for source block i, in order.
TerminatorsOf(i) ==
  SelectSeq(InstsOf(cUnit, getLLVMBlock(cUnit, i)), IsTerminator)

(* C13: once the block driver has left a source block that ends in a        *)
(* conditional compare-and-branch, the block made for it has exactly one    *)
(* terminator, its last instruction: a conditional branch to the block of   *)
(* the taken edge first and to the block of the fall-through edge second;   *)
(* no unconditional fall-through branch follows it.                         *)
C13_OneConditionalTerminator ==
  \A i \in 1..Len(method.blocks) :
    (IfConverted(i) /\ BlockDone(i)) =>
      /\ Len(TerminatorsOf(i)) = 1
      /\ InstsOf(cUnit, getLLVMBlock(cUnit, i))
           [Len(InstsOf(cUnit, getLLVMBlock(cUnit, i)))] = TerminatorsOf(i)[1]
      /\ TerminatorsOf(i)[1].op = "CondBr"
      /\ TerminatorsOf(i)[1].succ
           = <<getLLVMBlock(cUnit, method.blocks[i].taken + 1),
               getLLVMBlock(cUnit, method.blocks[i].fallThrough + 1)>>

C13_Witness ==
  /\ pc = "done"
  /\ \E i \in 1..Len(method.blocks) :
       /\ IfConverted(i)
       /\ TerminatorsOf(i) # <<>>
       /\ TerminatorsOf(i)[1].op = "CondBr"
       /\ TerminatorsOf(i)[1].succ[1] # TerminatorsOf(i)[1].succ[2]
       /\ method.blocks[i].fallThrough # NoId
       /\ cUnit.fallThrough[i] = NoId

\* The calls that allocate a shadow frame, as <<block, index>> positions in
\* the function.
AllocaShadowFrameCalls ==
  {p \in UNION {{<<i, j>> : j \in 1..Len(cUnit.blocks[i].insts)} :
                  i \in 1..Len(cUnit.blocks)} :
     /\ cUnit.blocks[p[1]].insts[p[2]].op = "Call"
     /\ cUnit.blocks[p[1]].insts[p[2]].intr = "AllocaShadowFrame"}

(* C14: the function never holds more than one shadow-frame allocation, and *)
(* none outside the entry block; once the entry block is converted there is *)
(* one exactly when some register has an object reference among its SSA     *)
(* slots, its argument is the number of such registers, and shadowMap       *)
(* lists exactly those registers, each once.                                *)
C14_ShadowFrameAllocatedOnce ==
  /\ Cardinality(AllocaShadowFrameCalls) <= 1
  /\ \A p \in AllocaShadowFrameCalls : cUnit.blocks[p[1]].name = EntryName
  /\ (Converting \/ pc \in {"finish", "done"}) =>
       IF ShadowMapBuilt
         THEN /\ (AllocaShadowFrameCalls # {}) <=> (Cardinality(RefRegisters) > 0)
              /\ \A p \in AllocaShadowFrameCalls :
                   cUnit.blocks[p[1]].insts[p[2]].args
                     = <<CInt(Cardinality(RefRegisters))>>
              /\ Range(cUnit.shadowMap) = RefRegisters
              /\ Len(cUnit.shadowMap) = Cardinality(RefRegisters)
         ELSE AllocaShadowFrameCalls = {}

C14_Witness ==
  /\ pc = "done"
  /\ Cardinality(AllocaShadowFrameCalls) = 1
  /\ Cardinality(RefRegisters) >= 1
  /\ \A p \in AllocaShadowFrameCalls :
       cUnit.blocks[p[1]].insts[p[2]].args = <<CInt(Len(cUnit.shadowMap))>>

\* What the MIR at the pair emitted: the instructions of its block that
\* carry its offset, in order.
InstsEmittedBy(p) ==
  SelectSeq(InstsOf(cUnit, getLLVMBlock(cUnit, p[1])),
            LAMBDA x : x.off = method.blocks[p[1]].mirs[p[2]].offset)

\* The converted MIRs that define a (non-wide) object reference.
ObjectDefining ==
  {p \in DefiningConverted : method.regLocation[SlotOf(p) + 1].ref}

\* The calls that record a live root.
SetShadowFrameEntryCalls ==
  {x \in AllInsts(cUnit) : x.op = "Call" /\ x.intr = "SetShadowFrameEntry"}

(* C15 as stated: every converted instruction that defines an object        *)
(* reference - an invoke whose result is an object included - is followed   *)
(* by a SetShadowFrameEntry call whose value operand is the value now held  *)
(* for the defined slot, a real value, and whose slot index k is within the *)
(* shadow frame with shadowMap[k] the register of the definition; and no    *)
(* SetShadowFrameEntry call has an index outside the shadow frame.          *)
C15_ObjectDefinitionRecorded ==
  cUnit.status = "ok" =>
    /\ \A p \in ObjectDefining :
         /\ InstsEmittedBy(p) # <<>>
         /\ InstsEmittedBy(p)[Len(InstsEmittedBy(p))].op = "Call"
         /\ InstsEmittedBy(p)[Len(InstsEmittedBy(p))].intr
              = "SetShadowFrameEntry"
         /\ InstsEmittedBy(p)[Len(InstsEmittedBy(p))].args[1]
              = getLLVMValue(cUnit, SlotOf(p))
         /\ ~IsPlaceholder(getLLVMValue(cUnit, SlotOf(p)))
         /\ InstsEmittedBy(p)[Len(InstsEmittedBy(p))].args[2]
              = CInt(ShadowIndex(cUnit, SRegToVReg(method, SlotOf(p))))
    /\ \A x \in SetShadowFrameEntryCalls :
         /\ x.args[2][2] >= 0
         /\ x.args[2][2] < cUnit.numShadowFrameEntries

(***************************************************************************)
(* What the properties of the reverse pass speak of.                       *)
(***************************************************************************)
\* The reverse pass has begun.
RevRunning ==
  \/ pc \in {"r_block", "r_inst", "r_done"}
  \/ pc = "aborted" /\ cUnit.lir # <<>>

\* The instruction loop has taken instruction k of block i.
Taken(i, k) ==
  /\ RevRunning
  /\ \/ bbIdx > i
     \/ bbIdx = i /\ pc \in {"r_inst", "aborted"} /\ mirIdx > k

\* The label of block i has been placed.
LabelPlaced(i) ==
  /\ RevRunning
  /\ bbIdx > i \/ (bbIdx = i /\ pc \in {"r_inst", "aborted"})

LabelIdxs ==
  {j \in 1..Len(cUnit.lir) : cUnit.lir[j].kind = "kPseudoNormalBlockLabel"}

\* The label of block i, the i-th label placed.
LabelOf(i) ==
  cUnit.lir[CHOOSE j \in LabelIdxs :
              Cardinality({h \in LabelIdxs : h <= j}) = i]

\* The code generated for block i after its label.
LIROfBlock(i) ==
  LET at == CHOOSE j \in LabelIdxs :
              Cardinality({h \in LabelIdxs : h <= j}) = i
      nxt == {j \in LabelIdxs : j > at}
      to == IF nxt = {} THEN Len(cUnit.lir)
            ELSE (CHOOSE j \in nxt : \A h \in nxt : j <= h) - 1
  IN SubSeq(cUnit.lir, at + 1, to)

BoundaryIdxs(l) ==
  {j \in 1..Len(l) : l[j].kind = "kPseudoDalvikByteCodeBoundary"}

\* The code generated in the n-th turn of the instruction loop on block i.
LIROfTurn(i, n) ==
  LET l == LIROfBlock(i)
      at == CHOOSE j \in BoundaryIdxs(l) :
              Cardinality({h \in BoundaryIdxs(l) : h <= j}) = n
      nxt == {j \in BoundaryIdxs(l) : j > at}
      to == IF nxt = {} THEN Len(l)
            ELSE (CHOOSE j \in nxt : \A h \in nxt : j <= h) - 1
  IN SubSeq(l, at + 1, to)

\* Instruction k of block i is the first compare of the block.
FirstCompare(i, k) ==
  /\ cUnit.blocks[i].insts[k].op = "ICmp"
  /\ \A h \in 1..(k - 1) : cUnit.blocks[i].insts[h].op # "ICmp"

\* The turn on compare k of block i has generated the compare, the
\* conditional branch to the first successor of br and the branch to its
\* second, and br has had no turn of its own.
Fused(i, k, br) ==
  /\ Cardinality(BoundaryIdxs(LIROfBlock(i))) = k
  /\ LET l == LIROfTurn(i, k)
     IN /\ Len(l) = 3
        /\ l[1].kind \in {"opRegReg", "opRegImm"}
        /\ l[1].opcode = "kOpCmp"
        /\ l[2].kind = "opCondBranch"
        /\ l[2].opcode = <<cUnit.blocks[i].insts[k].intr, br.succ[1]>>
        /\ l[3].kind = "opUnconditionalBranch"
        /\ l[3].opcode = br.succ[2]

\* The turn on compare k of block i has generated nothing and has ended
\* in the fatal error of the compare without a branch.
NotFused(i, k) ==
  /\ pc = "aborted"
  /\ cUnit.status = "fatal"
  /\ cUnit.log[Len(cUnit.log)].what = "UNIMPLEMENTED cvtICmp"
  /\ LIROfTurn(i, k) = <<>>

(* C16: in the reverse pass a compare that a conditional branch follows   *)
(* is converted with it into the compare, the conditional branch to the   *)
(* label of the branch's first successor and the branch to the label of   *)
(* its second, and the branch is not converted again; a compare that no   *)
(* conditional branch follows is not fused and ends in the fatal error.   *)
C16_CompareFusedWithConditionalBranch ==
  \A i \in 1..Len(cUnit.blocks) :
    \A k \in 1..(Len(cUnit.blocks[i].insts) - 1) :
      FirstCompare(i, k) /\ Taken(i, k) =>
        IF cUnit.blocks[i].insts[k + 1].op = "CondBr"
          THEN Fused(i, k, cUnit.blocks[i].insts[k + 1])
          ELSE NotFused(i, k)

\* The MIRs converted so far, as <<block, index>>.
AllConverted ==
  {p \in UNION {{<<i, k>> : k \in 1..Len(method.blocks[i].mirs)} :
                  i \in 1..Len(method.blocks)} : MirConverted(p[1] - 1, p[2])}

\* The intrinsic calls a MIR has emitted for its operation: those for the
\* shadow frame and the suspend check aside.
OperationCalls(p) ==
  SelectSeq(InstsEmittedBy(p), LAMBDA x :
    /\ x.op = "Call"
    /\ x.intr \notin {"AllocaShadowFrame", "SetShadowFrameEntry",
                       "PopShadowFrame", "CheckSuspend", "MethodInfo"})

\* The reverse converter of the operation of a Dalvik opcode.
ConverterOf(opcode) ==
  CASE opcode \in {"MOVE", "MOVE_OBJECT", "MOVE_WIDE", "MOVE_RESULT",
                   "MOVE_RESULT_OBJECT", "MOVE_RESULT_WIDE"} -> "cvtCopy"
    [] opcode \in {"CONST", "CONST_4", "CONST_16", "CONST_WIDE",
                   "CONST_WIDE_16", "CONST_WIDE_32", "CONST_HIGH16",
                   "CONST_WIDE_HIGH16"} -> "cvtConst"
    [] opcode \in {"SGET", "SGET_OBJECT", "SGET_WIDE", "SGET_BOOLEAN",
                   "SGET_BYTE", "SGET_CHAR", "SGET_SHORT"} -> "cvtSget"
    [] opcode \in {"SPUT", "SPUT_OBJECT", "SPUT_WIDE", "SPUT_BOOLEAN",
                   "SPUT_BYTE", "SPUT_CHAR", "SPUT_SHORT"} -> "cvtSput"
    [] opcode \in {"DIV_INT", "DIV_LONG", "DIV_INT_LIT8", "DIV_INT_LIT16",
                   "DIV_INT_2ADDR", "DIV_LONG_2ADDR"} -> "kOpDiv"
    [] opcode \in {"REM_INT", "REM_LONG", "REM_INT_LIT8", "REM_INT_LIT16",
                   "REM_INT_2ADDR", "REM_LONG_2ADDR"} -> "kOpRem"
    [] opcode = "NEW_INSTANCE" -> "cvtNewInstance"
    [] opcode = "NEW_ARRAY" -> "cvtNewArray"
    [] opcode \in {"CONST_STRING", "CONST_CLASS"} -> "cvtConstObject"
    [] opcode = "CHECK_CAST" -> "cvtCheckCast"
    [] opcode = "INSTANCE_OF" -> "cvtInstanceOf"
    [] opcode = "ARRAY_LENGTH" -> "cvtMonitorArrayLength"
    [] opcode \in {"AGET", "AGET_OBJECT", "AGET_WIDE"} -> "cvtAget"
    [] opcode \in {"APUT", "APUT_OBJECT", "APUT_WIDE"} -> "cvtAput"
    [] opcode \in {"IGET", "IGET_OBJECT", "IGET_WIDE"} -> "cvtIget"
    [] opcode \in {"IPUT", "IPUT_OBJECT", "IPUT_WIDE"} -> "cvtIput"
    [] opcode \in {"MONITOR_ENTER", "MONITOR_EXIT"} -> "cvtMonitorEnterExit"
    [] opcode = "INT_TO_CHAR" -> "INT_TO_CHAR"
    [] opcode = "INT_TO_SHORT" -> "INT_TO_SHORT"
    [] opcode = "INT_TO_BYTE" -> "INT_TO_BYTE"
    [] opcode = "MOVE_EXCEPTION" -> "cvtMoveException"
    [] opcode = "FILL_ARRAY_DATA" -> "cvtFillArrayData"
    [] opcode = "THROW" -> "cvtThrow"
    [] opcode = "THROW_VERIFICATION_ERROR" -> "cvtThrowVerificationError"
    [] opcode \in {"INVOKE_STATIC", "INVOKE_DIRECT", "INVOKE_VIRTUAL",
                   "INVOKE_SUPER", "INVOKE_INTERFACE", "FILLED_NEW_ARRAY"} ->
         "cvtInvoke"
    [] OTHER -> "none"

\* The call x emitted for opcode is dispatched to the converter of the
\* opcode's operation, which reads as many arguments as the call passes.
Accepted(opcode, x) ==
  /\ IntrinsicHandler(x.intr) = ConverterOf(opcode)
  /\ HandlerReads(IntrinsicHandler(x.intr), Len(x.args))

(* C17: every intrinsic call the forward converter emits for a Dalvik     *)
(* opcode is dispatched by the reverse pass to the converter of the same  *)
(* operation, and that converter reads the number of arguments the call   *)
(* was given; static field puts and filled-new-array are such calls.      *)
C17_EmittedIntrinsicAccepted ==
  \A p \in AllConverted :
    \A j \in 1..Len(OperationCalls(p)) :
      Accepted(method.blocks[p[1]].mirs[p[2]].opcode, OperationCalls(p)[j])

(* C18: a function that fails structural verification at the end of the   *)
(* forward conversion ends the conversion in a fatal error; it is not     *)
(* handed on, and the reverse pass does not run on it.                    *)
C18_VerificationFailureFatal ==
  cUnit.verified = "broken" =>
    /\ cUnit.status = "fatal"
    /\ pc = "aborted"
    /\ ~RevRunning

\* The name of block i is a label name.
WellNamed(i) == cUnit.blocks[i].name[1] = "L"

(* C19: in the reverse pass a block other than the entry block whose name *)
(* is missing or is no label name ends the pass in a fatal error, and no  *)
(* label is placed for it.                                                *)
C19_MalformedNameFatal ==
  \A i \in 2..Len(cUnit.blocks) :
    RevRunning /\ bbIdx >= i /\ (bbIdx = i => pc # "r_block")
      /\ ~WellNamed(i) =>
        /\ cUnit.status = "fatal"
        /\ \A j \in LabelIdxs : cUnit.lir[j].opcode # cUnit.blocks[i].name

\* The instructions the reverse pass converts, calls aside.
HandledOps ==
  {"Add", "Sub", "Mul", "SDiv", "SRem", "And", "Or", "Xor", "FAdd", "FSub",
   "FMul", "FDiv", "FRem", "Shl", "LShr", "AShr", "ICmp", "Br", "CondBr",
   "PHI", "Ret", "ZExt", "SExt", "Unreachable"}

\* An instruction of a kind the reverse pass does not convert: neither one
\* of the handled instructions nor the call of a known intrinsic.
OutsideHandled(inst) ==
  IF inst.op = "Call"
    THEN IntrinsicHandler(inst.intr) \in {"LOG_FATAL", "cvtCall"}
    ELSE inst.op \notin HandledOps

(* C20: the reverse pass converts a closed set of instruction kinds; once *)
(* the instruction loop has taken an instruction of any other kind (a     *)
(* Load, Store, Alloca, Select, Switch, FCmp, Trunc, the call of an       *)
(* unknown function) the pass has ended there in a fatal error, with no   *)
(* code generated for the instruction and none after it.                  *)
C20_UnhandledKindFatal ==
  \A i \in 1..Len(cUnit.blocks) :
    \A k \in 1..Len(cUnit.blocks[i].insts) :
      Taken(i, k) /\ OutsideHandled(cUnit.blocks[i].insts[k]) =>
        /\ pc = "aborted"
        /\ cUnit.status = "fatal"
        /\ bbIdx = i
        /\ mirIdx = k + 1
        /\ cUnit.lir[Len(cUnit.lir)].kind = "kPseudoDalvikByteCodeBoundary"

C20_Witness ==
  /\ pc = "aborted"
  /\ bbIdx = 2
  /\ Taken(2, 1)
  /\ cUnit.blocks[2].insts[1].op = "Load"
  /\ cUnit.log[Len(cUnit.log)].what = "Unexpected llvm opcode"

\* The reverse pass is about to walk the first block.
BeforeFirstBlock == pc = "r_block" /\ bbIdx = 1

\* The arguments of the function and its instructions named "v...".
ValuesToLocate ==
  {<<"arg", k - 1>> : k \in 1..Len(cUnit.args)}
  \cup {x.val : x \in {y \in AllInsts(cUnit) : y.name[1] = "v"}}

CodeBlocks ==
  {b \in 1..Len(method.blocks) :
     method.blocks[b].blockType = "kDalvikByteCode"}

\* The forward pass has made the block of source block b.
BlockCreated(b) == cUnit.idToBlockMap[b] # NoBlock

(* C22: the block of a source block with start offset o and id b is named *)
(* from (o, b) by the label format, the reverse pass places for it a      *)
(* label whose operand is o, and source blocks of different ids get       *)
(* different names.                                                       *)
C22_BlockNameRoundTrip ==
  method # NoMethod /\ cUnit # NoUnit =>
    \A b \in CodeBlocks :
      BlockCreated(b) =>
        /\ cUnit.idToBlockMap[b] =
             LabelName(method.blocks[b].startOffset, method.blocks[b].id)
        /\ \A b2 \in CodeBlocks \ {b} :
             BlockCreated(b2) => cUnit.idToBlockMap[b2] # cUnit.idToBlockMap[b]
        /\ \A i \in 2..Len(cUnit.blocks) :
             LabelPlaced(i) /\ cUnit.blocks[i].name = cUnit.idToBlockMap[b]
               => LabelOf(i).lit = method.blocks[b].startOffset

\* Instruction k of block i is a 64-bit shift that no compare precedes in
\* its block.
WideShift(i, k) ==
  /\ cUnit.blocks[i].insts[k].op \in {"Shl", "AShr", "LShr"}
  /\ cUnit.blocks[i].insts[k].ty = "Int64"
  /\ \A h \in 1..(k - 1) : cUnit.blocks[i].insts[h].op # "ICmp"

\* The widening instructions that give the value v.
WideningOf(v) ==
  {x \in AllInsts(cUnit) : x.val = v /\ x.op \in {"ZExt", "SExt"}}

LongShiftOpcode(op) ==
  CASE op = "Shl" -> <<"SHL", "LONG">>
    [] op = "AShr" -> <<"SHR", "LONG">>
    [] op = "LShr" -> <<"USHR", "LONG">>

(* C23: in the reverse pass a 64-bit shift whose count is given by a      *)
(* widening instruction is handed to the long-shift generator with the    *)
(* location of the operand of that widening, a location that is not wide, *)
(* and with SHL_LONG, SHR_LONG or USHR_LONG for a left, an arithmetic     *)
(* right or a logical right shift; a 64-bit shift whose count is given by *)
(* anything else ends in a fatal error with no code generated for it.     *)
C23_LongShiftCount ==
  \A i \in 1..Len(cUnit.blocks) :
    \A k \in 1..Len(cUnit.blocks[i].insts) :
      WideShift(i, k) /\ Taken(i, k) =>
        LET inst == cUnit.blocks[i].insts[k]
        IN IF WideningOf(inst.args[2]) # {}
             THEN LET ext == CHOOSE x \in WideningOf(inst.args[2]) : TRUE
                  IN /\ LocMapHas(cUnit, ext.args[1])
                     /\ ~LocMapGet(cUnit, ext.args[1]).wide
                     /\ Len(LIROfTurn(i, k)) = 1
                     /\ LIROfTurn(i, k)[1].kind = "genShiftOpLong"
                     /\ LIROfTurn(i, k)[1].opcode = LongShiftOpcode(inst.op)
                     /\ LIROfTurn(i, k)[1].rlSrc2 =
                          LocMapGet(cUnit, ext.args[1])
             ELSE /\ cUnit.status = "fatal"
                  /\ LIROfTurn(i, k) = <<>>

\* The MIRs of the method, as <<block, index>>, once the forward pass is
\* over and the reverse pass runs.
AllReversed ==
  {p \in UNION {{<<i, k>> : k \in 1..Len(method.blocks[i].mirs)} :
                  i \in 1..Len(method.blocks)} : RevRunning}

\* The converted invokes, FILLED_NEW_ARRAY aside.
InvokesConverted ==
  {p \in AllReversed :
     method.blocks[p[1]].mirs[p[2]].opcode \in
       {"INVOKE_STATIC", "INVOKE_DIRECT", "INVOKE_VIRTUAL", "INVOKE_SUPER",
        "INVOKE_INTERFACE"}}

\* Where value v is defined in the function, as <<block, index>>.
PlacesOf(v) ==
  {q \in UNION {{<<i, k>> : k \in 1..Len(cUnit.blocks[i].insts)} :
                  i \in 1..Len(cUnit.blocks)} :
     /\ cUnit.blocks[q[1]].insts[q[2]].val = v
     /\ \A h \in 1..(q[2] - 1) : cUnit.blocks[q[1]].insts[h].op # "ICmp"}

\* The descriptor info is that of the invoke mir.
SameCall(info, mir) ==
  /\ info.type = InvokeTypeOf(mir.opcode)
  /\ info.index = mir.vB
  /\ info.optFlags = mir.optFlags
  /\ (info.result.location = "kLocInvalid") <=> (mir.result = INVALID_SREG)
  /\ info.numArgWords = Len(mir.uses)
  /\ Len(info.args) = Len(mir.uses)
  /\ \A j \in 1..Len(mir.uses) :
       IF method.regLocation[mir.uses[j] + 1].highWord
         THEN /\ j > 1
              /\ info.args[j - 1].wide
              /\ info.args[j].origSReg = info.args[j - 1].origSReg + 1
              /\ info.args[j].sRegLow = info.args[j - 1].sRegLow + 1
         ELSE /\ IsLocOfSlot(info.args[j], mir.uses[j])
              /\ info.args[j].wide = method.regLocation[mir.uses[j] + 1].wide

(* C24: the call descriptor the reverse pass rebuilds for an invoke has   *)
(* the invocation kind, the callee index and the optimization flags of    *)
(* the source call, its arguments in their order, a wide argument in two  *)
(* consecutive slots the second made from the first, as many argument     *)
(* words as the source call, and no result exactly when the source call's *)
(* result is unused.                                                      *)
C24_InvokeRoundTrip ==
  method # NoMethod /\ cUnit # NoUnit =>
    \A p \in InvokesConverted :
      /\ Len(OperationCalls(p)) = 1
      /\ \A q \in PlacesOf(OperationCalls(p)[1].val) :
           Taken(q[1], q[2]) =>
             /\ Len(LIROfTurn(q[1], q[2])) = 1
             /\ LIROfTurn(q[1], q[2])[1].kind = "genInvoke"
             /\ SameCall(LIROfTurn(q[1], q[2])[1].opcode,
                         method.blocks[p[1]].mirs[p[2]])

\* The instructions a step of the forward conversion has emitted: those of
\* the next state whose value did not exist before.
EmittedByStep ==
  {x \in AllInsts(cUnit') : x.val[1] = "inst" /\ x.val[2] >= cUnit.nv}

\* The offset of the source instruction, or of the source block when none
\* is at hand, the step converts.
OffsetConverted ==
  LET b == method.blocks[CurBB + 1] IN
  IF pc = "block_mir" THEN b.mirs[mirIdx].offset
  ELSE IF pc = "block_end" /\ b.mirs # <<>> THEN b.mirs[Len(b.mirs)].offset
  ELSE b.startOffset

\* A step of the block conversion stamps what it emits.
StepStamps ==
  pc \in {"block_start", "block_mir", "block_end"} =>
    /\ \A x \in EmittedByStep :
         IF x.op = "Call" /\ x.intr = "MethodInfo"
           THEN x.off = NoOff
           ELSE x.off = OffsetConverted
    /\ cUnit'.off = cUnit'.currentDalvikOffset
    /\ cUnit'.off # NoOff

(* C25: the MethodInfo call carries no DexOff metadata, every other        *)
(* instruction a step of the block conversion emits carries the offset of  *)
(* the instruction (or block) the step converts, and after the step the    *)
(* builder's metadata is again the current Dalvik offset.                  *)
C25_OffsetMetadata == [][StepStamps]_vars

\* The entry block holds the MethodInfo call and an instruction after it,
\* and a block of a later offset has been converted.
C25_Witness ==
  /\ method # NoMethod /\ cUnit # NoUnit
  /\ pc = "finish"
  /\ \E k \in 1..Len(InstsOf(cUnit, EntryName)) :
       /\ InstsOf(cUnit, EntryName)[k].intr = "MethodInfo"
       /\ InstsOf(cUnit, EntryName)[k].off = NoOff
       /\ k < Len(InstsOf(cUnit, EntryName))
       /\ InstsOf(cUnit, EntryName)[k + 1].off = method.blocks[1].startOffset
  /\ \E x \in AllInsts(cUnit) : x.off > 0

\* The opcodes that define no SSA value.
NonDefiningOps ==
  {"SPUT", "SPUT_OBJECT", "SPUT_WIDE", "SPUT_BOOLEAN", "SPUT_BYTE",
   "SPUT_CHAR", "SPUT_SHORT", "IPUT", "IPUT_OBJECT", "IPUT_WIDE",
   "IPUT_BOOLEAN", "IPUT_BYTE", "IPUT_CHAR", "IPUT_SHORT", "APUT",
   "APUT_OBJECT", "APUT_WIDE", "APUT_BOOLEAN", "APUT_BYTE", "APUT_CHAR",
   "APUT_SHORT", "CHECK_CAST", "MONITOR_ENTER", "MONITOR_EXIT", "THROW",
   "THROW_VERIFICATION_ERROR", "FILL_ARRAY_DATA", "GOTO", "IF_EQ", "IF_NE",
   "IF_LT", "IF_GE", "IF_GT", "IF_LE", "IF_EQZ", "IF_NEZ", "IF_LTZ",
   "IF_GEZ", "IF_GTZ", "IF_LEZ", "RETURN", "RETURN_VOID", "RETURN_WIDE",
   "RETURN_OBJECT"}

\* The step converts an instruction that defines no value.
ConvertsNonDefining ==
  /\ pc = "block_mir"
  /\ method.blocks[CurBB + 1].mirs[mirIdx].opcode \in NonDefiningOps

\* The step leaves the value table and the operands of every instruction
\* that exists alone.
ValuesKept ==
  /\ cUnit'.llvmValues = cUnit.llvmValues
  /\ \A i \in 1..Len(cUnit.blocks) : \A k \in 1..Len(cUnit.blocks[i].insts) :
       /\ i <= Len(cUnit'.blocks)
       /\ k <= Len(cUnit'.blocks[i].insts)
       /\ cUnit'.blocks[i].insts[k].args = cUnit.blocks[i].insts[k].args

(* C26: the forward conversion of an instruction that defines no SSA value *)
(* leaves llvmValues as it was and rewrites no use of any value.           *)
C26_NonDefiningKeepsValues == [][ConvertsNonDefining => ValuesKept]_vars

\* The instance field reads and writes of the method, once the reverse pass
\* runs.
FieldReads ==
  {p \in AllReversed :
     method.blocks[p[1]].mirs[p[2]].opcode \in
       {"IGET", "IGET_OBJECT", "IGET_WIDE"}}

FieldWrites ==
  {p \in AllReversed :
     method.blocks[p[1]].mirs[p[2]].opcode \in
       {"IPUT", "IPUT_OBJECT", "IPUT_WIDE"}}

\* The value is the one of the slot.
IsValueOfSlot(v, s) == NameOfValue(cUnit, v) = llvmSSAName(method, s)

\* The call the forward pass made for the field read: it is the value of
\* the destination and has the object and the field index.
IgetForward(call, mir) ==
  /\ Len(call.args) = 3
  /\ IsValueOfSlot(call.val, mir.defs[1])
  /\ IsValueOfSlot(call.args[2], mir.uses[1])
  /\ call.args[3] = CInt(mir.vC)

\* The call the forward pass made for the field write: the source, the
\* object, the field index, the float variant by the source's class.
IputForward(call, mir) ==
  /\ Len(call.args) = 4
  /\ IsValueOfSlot(call.args[2], mir.uses[1])
  /\ IsValueOfSlot(call.args[3], mir.uses[2])
  /\ call.args[4] = CInt(mir.vC)
  /\ mir.opcode = "IPUT" =>
       (call.intr = "HLIPutFloat") <=> method.regLocation[mir.uses[1] + 1].fp

\* What the reverse converters handed to the generator.
IgetReverse(l, mir) ==
  /\ l.kind = "cvtIget"
  /\ IsLocOfSlot(l.rlDest, mir.defs[1])
  /\ IsLocOfSlot(l.rlSrc1, mir.uses[1])
  /\ l.lit = mir.vC

IputReverse(l, mir) ==
  /\ l.kind = "cvtIput"
  /\ IsLocOfSlot(l.rlSrc1, mir.uses[1])
  /\ IsLocOfSlot(l.rlSrc2, mir.uses[2])
  /\ l.lit = mir.vC

(* C27: every IGET has one call that defines the destination and carries   *)
(* the object and the field index, every IPUT one call that carries the    *)
(* source, the object and the field index; cvtIget and cvtIput hand the    *)
(* generator the locations of the same slots and the same field index.     *)
C27_FieldAccessRoundTrip ==
  method # NoMethod /\ cUnit # NoUnit =>
    /\ \A p \in FieldReads :
         /\ Len(OperationCalls(p)) = 1
         /\ IgetForward(OperationCalls(p)[1], method.blocks[p[1]].mirs[p[2]])
         /\ \A q \in PlacesOf(OperationCalls(p)[1].val) :
              Taken(q[1], q[2]) =>
                /\ Len(LIROfTurn(q[1], q[2])) = 1
                /\ IgetReverse(LIROfTurn(q[1], q[2])[1],
                               method.blocks[p[1]].mirs[p[2]])
    /\ \A p \in FieldWrites :
         /\ Len(OperationCalls(p)) = 1
         /\ IputForward(OperationCalls(p)[1], method.blocks[p[1]].mirs[p[2]])
         /\ \A q \in PlacesOf(OperationCalls(p)[1].val) :
              Taken(q[1], q[2]) =>
                /\ Len(LIROfTurn(q[1], q[2])) = 1
                /\ IputReverse(LIROfTurn(q[1], q[2])[1],
                               method.blocks[p[1]].mirs[p[2]])

\* The slots of the arguments: the ins, the high half of a wide one aside.
ArgumentSlots ==
  {s \in method.numRegs..(method.numRegs + method.numIns - 1) :
     ~method.regLocation[s + 1].highWord}

\* The pre-declaration loop is over.
PreDeclared ==
  /\ method # NoMethod /\ cUnit # NoUnit
  /\ pc \in {"block_start", "block_mir", "block_end", "finish"}

(* C28: after the pre-declaration loop llvmValues has numSSARegs entries,  *)
(* the entry of every argument slot s is the function argument named       *)
(* v<s>_0, and no entry was read past the last function argument.          *)
C28_PreDeclaredArguments ==
  (PreDeclared /\ pc = "block_start" /\ bbIdx = 1) =>
    /\ Len(cUnit.llvmValues) = method.numSSARegs
    /\ \A s \in ArgumentSlots :
         /\ getLLVMValue(cUnit, s)[1] = "arg"
         /\ NameOfValue(cUnit, getLLVMValue(cUnit, s)) = <<"v", s, 0>>
    /\ \A s \in 0..(method.numSSARegs - 1) : getLLVMValue(cUnit, s) # Garbage

\* The entry sequences generated: one, once the entry block's prologue has
\* run.
EntrySequences ==
  {j \in 1..Len(cUnit.lir) : cUnit.lir[j].kind = "genEntrySequence"}

(* C29: the entry block's prologue writes argLocs, an array of numIns      *)
(* entries, at indices 0..numIns-1 only and at no more than numIns of      *)
(* them, and every function argument it looks up has an entry in locMap.   *)
C29_ArgLocsWithinBounds ==
  (method # NoMethod /\ cUnit # NoUnit /\ RevRunning) =>
    /\ \A j \in EntrySequences :
         /\ \A k \in 1..Len(cUnit.lir[j].opcode) :
              cUnit.lir[j].opcode[k] \in 0..(method.numIns - 1)
         /\ Len(cUnit.lir[j].opcode) <= method.numIns
    /\ \A k \in 1..Len(cUnit.args) : LocMapHas(cUnit, <<"arg", k - 1>>)

\* The forward pass is over and has not aborted.
ForwardDone ==
  /\ method # NoMethod /\ cUnit # NoUnit
  /\ pc = "done"
  /\ cUnit.status = "ok"

(* C30: every block of the function the forward pass leaves ends in one    *)
(* terminator, its last instruction - no fall-through branch follows a     *)
(* goto, a throw, a throw-verification-error, a return or a conditional    *)
(* branch - and every successor of a branch is a block of the function.    *)
C30_OneTerminatorPerBlock ==
  ForwardDone =>
    \A i \in 1..Len(cUnit.blocks) :
      /\ cUnit.blocks[i].insts # <<>>
      /\ \A j \in 1..Len(cUnit.blocks[i].insts) :
           /\ IsTerminator(cUnit.blocks[i].insts[j])
                <=> j = Len(cUnit.blocks[i].insts)
           /\ \A k \in 1..Len(cUnit.blocks[i].insts[j].succ) :
                HasBlock(cUnit, cUnit.blocks[i].insts[j].succ[k])

==============================================================================
